---- MODULE Spec2Model ----
(***************************************************************************)
(* Energy contributions of Hotspice (src/hotspice/energies.py) on the      *)
(* lattices of src/hotspin/ASI.py.                                         *)
(*                                                                         *)
(* Numbers.  The program computes in floating point; here every quantity   *)
(* is an integer in a fixed unit.  Distances are in units of the lattice   *)
(* spacing dx = dy, the inverse-distance power rr_inv**(-decay_exponent)   *)
(* is rounded down to a multiple of 1/SCALE, and the constant factor 1e-7  *)
(* of the kernels is part of the energy unit.  Everything after the kernel *)
(* entries (sums, products, negations) is exact.  Angles are multiples of  *)
(* a quarter turn, so that cosines and sines are -1, 0 or 1.               *)
(*                                                                         *)
(* A 2D array of shape (h, w) is a function on Idx(h, w), the pairs        *)
(* <<row, column>> counted from 0, as in numpy.                            *)
(***************************************************************************)
EXTENDS Integers, Sequences, FiniteSets, TLC

VARIABLES mm, zeeman, dipolar, exchange, last, nsteps, mirror, sampler

vars == <<mm, zeeman, dipolar, exchange, last, nsteps, mirror, sampler>>

\* mirror is the last call of utils.mirror4 with its result, sampler the
\* SequentialPoissonDiskSampling object; the energies use neither
utilvars == <<mirror, sampler>>

NoUtils == mirror = <<>> /\ sampler = <<>>

(***************************************************************************)
(* Bounds of the model.                                                    *)
(***************************************************************************)
SCALE == 1000
MaxSteps == 2
MaxBatch == 2
MaxSites == 8

(***************************************************************************)
(* Arrays.                                                                 *)
(***************************************************************************)
Idx(h, w) == (0..(h-1)) \X (0..(w-1))

Zeros(h, w) == [i \in Idx(h, w) |-> 0]

RECURSIVE SumN(_, _)
SumN(f, n) == IF n = 0 THEN 0 ELSE f[n-1] + SumN(f, n-1)

\* xp.sum over a 2D array of shape (h, w)
Sum2(arr, h, w) == SumN([k \in 0..(h*w-1) |-> arr[<<k \div w, k % w>>]], h*w)

Min(a, b) == IF a < b THEN a ELSE b

\* floor of the square root of n, searched in lo..hi
RECURSIVE ISqrtIn(_, _, _)
ISqrtIn(n, lo, hi) ==
    IF lo >= hi THEN lo
    ELSE LET mid == (lo + hi + 1) \div 2
         IN  IF mid*mid <= n THEN ISqrtIn(n, mid, hi) ELSE ISqrtIn(n, lo, mid-1)


\* cos and sin of an angle given in quarter turns
Cos4(q) == CASE q % 4 = 0 -> 1 [] q % 4 = 1 -> 0 [] q % 4 = 2 -> -1 [] OTHER -> 0
Sin4(q) == CASE q % 4 = 0 -> 0 [] q % 4 = 1 -> 1 [] q % 4 = 2 -> 0 [] OTHER -> -1

(***************************************************************************)
(* utils.mirror4: four slice assignments in the order of the source; a     *)
(* later assignment overwrites an earlier one on the middle row and column.*)
(***************************************************************************)
mirror4(arr, ny, nx, negativex, negativey) ==
    LET xp == IF negativex THEN -1 ELSE 1
        yp == IF negativey THEN -1 ELSE 1
        a0 == Zeros(2*ny-1, 2*nx-1)
        a1 == [i \in Idx(2*ny-1, 2*nx-1) |->
                 IF i[1] >= ny-1 /\ i[2] >= nx-1
                 THEN arr[<<i[1]-(ny-1), i[2]-(nx-1)>>] ELSE a0[i]]
        a2 == [i \in Idx(2*ny-1, 2*nx-1) |->
                 IF i[1] >= ny-1 /\ i[2] <= nx-1
                 THEN xp*arr[<<i[1]-(ny-1), (nx-1)-i[2]>>] ELSE a1[i]]
        a3 == [i \in Idx(2*ny-1, 2*nx-1) |->
                 IF i[1] <= ny-1 /\ i[2] >= nx-1
                 THEN yp*arr[<<(ny-1)-i[1], i[2]-(nx-1)>>] ELSE a2[i]]
    IN  [i \in Idx(2*ny-1, 2*nx-1) |->
                 IF i[1] <= ny-1 /\ i[2] <= nx-1
                 THEN xp*yp*arr[<<(ny-1)-i[1], (nx-1)-i[2]>>] ELSE a3[i]]

(***************************************************************************)
(* scipy.signal.convolve2d as the energies call it.                        *)
(*   valid: in1 of shape (h1, w1) at least as large as in2 of shape        *)
(*          (h2, w2); the output has shape (h1-h2+1, w1-w2+1).             *)
(*   same:  the output has the shape of in1 and is the middle of the full  *)
(*          convolution; outside in1 the input is 0 (boundary 'fill') or   *)
(*          repeats periodically (boundary 'wrap').                        *)
(***************************************************************************)
convolve2d_valid(in1, h1, w1, in2, h2, w2) ==
    [o \in Idx(h1-h2+1, w1-w2+1) |->
        SumN([k \in 0..(h2*w2-1) |->
                 in2[<<k \div w2, k % w2>>]
                 * in1[<<o[1] + (h2-1) - (k \div w2), o[2] + (w2-1) - (k % w2)>>]],
             h2*w2)]

convolve2d_same(in1, h1, w1, in2, h2, w2, wrap) ==
    [o \in Idx(h1, w1) |->
        SumN([k \in 0..(h2*w2-1) |->
                 LET r == o[1] + ((h2-1) \div 2) - (k \div w2)
                     c == o[2] + ((w2-1) \div 2) - (k % w2)
                 IN  IF wrap
                     THEN in2[<<k \div w2, k % w2>>] * in1[<<r % h1, c % w1>>]
                     ELSE IF r \in 0..(h1-1) /\ c \in 0..(w1-1)
                          THEN in2[<<k \div w2, k % w2>>] * in1[<<r, c>>]
                          ELSE 0],
             h2*w2)]

(***************************************************************************)
(* The lattice (class Magnets and its subclasses in ASI.py).               *)
(*   geometry "OOP_Square": out-of-plane, every site occupied, 1x1 cell    *)
(*   geometry "IP_Square":  in-plane, sites with (ix+iy) odd occupied,     *)
(*                          angle 0 on even rows, a quarter turn on odd    *)
(*                          rows, 2x2 cell                                 *)
(***************************************************************************)
\* IP_Square._get_occupation / OOP_Square._get_occupation
occupation_of(geometry, ny, nx) ==
    [i \in Idx(ny, nx) |->
        IF geometry = "IP_Square"
        THEN (IF (i[2] + i[1]) % 2 = 1 THEN 1 ELSE 0)
        ELSE 1]

\* IP_Square._get_angles, in quarter turns (the angles of an out-of-plane
\* lattice are NaN and never read)
angles_of(geometry, ny, nx) ==
    [i \in Idx(ny, nx) |-> IF i[1] % 2 = 1 THEN 1 ELSE 0]

\* orientation[:,:,0] and orientation[:,:,1]: the unit vector of the angle
\* on occupied sites, the zero vector on unoccupied ones
orientation_of(geometry, ny, nx) ==
    [i \in Idx(ny, nx) |->
        <<Cos4(angles_of(geometry, ny, nx)[i]) * occupation_of(geometry, ny, nx)[i],
          Sin4(angles_of(geometry, ny, nx)[i]) * occupation_of(geometry, ny, nx)[i]>>]

\* the sub-cell (mm.unitcell) of each geometry
unitcell_of(geometry) ==
    IF geometry = "IP_Square" THEN [y |-> 2, x |-> 2] ELSE [y |-> 1, x |-> 1]

\* the nearest-neighbour stencil, OOP_Square / IP_Square / IP_Kagome
\* ._get_nearest_neighbors
nearest_neighbors_of(geometry) ==
    IF geometry = "IP_Kagome"
    THEN [i \in Idx(3, 5) |-> IF (i[1] + i[2]) % 2 = 1 /\ i # <<1, 2>> THEN 1 ELSE 0]
    ELSE IF geometry = "IP_Square"
    THEN [i \in Idx(3, 3) |-> IF i[1] # 1 /\ i[2] # 1 THEN 1 ELSE 0]
    ELSE [i \in Idx(3, 3) |-> IF (i[1] = 1) # (i[2] = 1) THEN 1 ELSE 0]

\* the 'uniform' and 'afm' patterns of _set_m; an unoccupied site holds the
\* value vacant, which no geometry class defines
set_m(geometry, ny, nx, pattern, vacant) ==
    [i \in Idx(ny, nx) |->
        IF occupation_of(geometry, ny, nx)[i] = 0 THEN vacant
        ELSE IF pattern = "uniform" THEN 1
        ELSE IF geometry = "IP_Square"
             THEN (((i[2] - i[1]) \div 2) % 2)*2 - 1
             ELSE ((i[2] - i[1]) % 2)*2 - 1]

\* the per-site moment magnitude: 1 everywhere, or 1 and 2 on alternating columns
moment_of(ny, nx, moments) ==
    [i \in Idx(ny, nx) |-> IF moments = "unit" THEN 1 ELSE 1 + (i[2] % 2)]

\* Magnets.__init__: the lattice state the energies read
Magnets(c) ==
    [ geometry        |-> c.geometry,
      ny              |-> c.ny,
      nx              |-> c.nx,
      in_plane        |-> (c.geometry = "IP_Square"),
      PBC             |-> c.PBC,
      USE_PERP_ENERGY |-> c.USE_PERP_ENERGY,
      unitcell        |-> unitcell_of(c.geometry),
      occupation      |-> occupation_of(c.geometry, c.ny, c.nx),
      orientation     |-> orientation_of(c.geometry, c.ny, c.nx),
      moment          |-> moment_of(c.ny, c.nx, c.moments),
      m               |-> set_m(c.geometry, c.ny, c.nx, c.pattern, c.vacant),
      params          |-> [ SIMULTANEOUS_SWITCHES_CONVOLUTION_OR_SUM_CUTOFF |-> c.cutoff,
                            REDUCED_KERNEL_SIZE |-> c.reduced ] ]

\* the sites that hold a magnet
Occupied(l) == {i \in Idx(l.ny, l.nx) : l.occupation[i] = 1}

\* mmoment = self.mm.m*self.mm.moment
mmoment_of(l) == [i \in Idx(l.ny, l.nx) |-> l.m[i] * l.moment[i]]

(***************************************************************************)
(* DipolarEnergy._initialize: the kernel cache.                            *)
(***************************************************************************)
\* rr_sq = rrx**2 + rry**2 on the lattice, before rr_sq[0,0] = inf
rr_sq_of(l) == [i \in Idx(l.ny, l.nx) |-> i[2]*i[2] + i[1]*i[1]]

\* rr_inv**(-decay_exponent) in units of 1/SCALE, rounded down.  At the
\* origin rr_sq is infinite and rr_inv is 0: its power is 0 for a negative
\* decay_exponent and 1 for decay_exponent = 0 (0.0**0 is 1.0)
rr_inv_pow(rsq, decay_exponent) ==
    IF decay_exponent = 0 THEN SCALE
    ELSE IF rsq = 0 THEN 0
    ELSE IF decay_exponent = -2 THEN SCALE \div rsq
    ELSE ISqrtIn((SCALE*SCALE) \div (rsq*rsq*rsq), 0, SCALE)

\* rinv3 = mirror4(rr_inv3)
rinv3_of(l, decay_exponent) ==
    mirror4([i \in Idx(l.ny, l.nx) |-> rr_inv_pow(rr_sq_of(l)[i], decay_exponent)],
            l.ny, l.nx, FALSE, FALSE)

\* ux = mirror4(rrx*rr_inv, negativex=True) and uy = mirror4(rry*rr_inv,
\* negativey=True) are kept as the numerators rrx and rry and the common
\* squared denominator rr_sq, mirrored the same way
ux_num(l) == mirror4([i \in Idx(l.ny, l.nx) |-> i[2]], l.ny, l.nx, TRUE, FALSE)
uy_num(l) == mirror4([i \in Idx(l.ny, l.nx) |-> i[1]], l.ny, l.nx, FALSE, TRUE)
u_den(l) == mirror4(rr_sq_of(l), l.ny, l.nx, FALSE, FALSE)

\* slice_startx, slice_starty
slice_start(n, cell, p) == (cell - ((n-1) % cell) + p) % cell

\* toolargematrix_o*[slice_starty+r, slice_startx+c]: the tiled sub-cell
tiled(l, y, x, i) ==
    << (slice_start(l.ny, l.unitcell.y, y) + i[1]) % l.unitcell.y,
       (slice_start(l.nx, l.unitcell.x, x) + i[2]) % l.unitcell.x >>

\* the kernel with kernel3 = 3*(ux*uy)*(ox1*oy2), without oy1*ox2
dd_kernel_halfcross(l, rinv3, o1, o2, i) ==
    IF u_den(l)[i] = 0 THEN (o1[1]*o2[1] + o1[2]*o2[2]) * rinv3[i]
    ELSE LET uxn == ux_num(l)[i]
             uyn == uy_num(l)[i]
             den == u_den(l)[i]
             num == o1[1]*o2[1]*(3*uxn*uxn - den)
                  + o1[2]*o2[2]*(3*uyn*uyn - den)
                  + 3*(uxn*uyn)*(o1[1]*o2[2])
         IN  (-(num * rinv3[i])) \div den

\* -(kernel1 + kernel2 + kernel3)*rinv3 for the centre orientation o1 and the
\* orientation o2 of the other magnet, at kernel index i; at the origin
\* ux = uy = 0*rr_inv = 0
dd_kernel(l, rinv3, o1, o2, i) ==
    IF u_den(l)[i] = 0 THEN (o1[1]*o2[1] + o1[2]*o2[2]) * rinv3[i]
    ELSE LET uxn == ux_num(l)[i]
             uyn == uy_num(l)[i]
             den == u_den(l)[i]
             num == o1[1]*o2[1]*(3*uxn*uxn - den)
                  + o1[2]*o2[2]*(3*uyn*uyn - den)
                  + 3*(uxn*uyn)*(o1[1]*o2[2] + o1[2]*o2[1])
         IN  (-(num * rinv3[i])) \div den

\* 90 degrees counterclockwise
rotated90(o) == << -o[2], o[1] >>

\* apply_PBC without the four diagonal images
apply_PBC_nodiagonal(k, ny, nx) ==
    [i \in Idx(2*ny-1, 2*nx-1) |->
        LET r == i[1]
            c == i[2]
        IN  k[i]
          + (IF c >= nx THEN k[<<r, c-nx>>] ELSE 0)
          + (IF r >= ny THEN k[<<r-ny, c>>] ELSE 0)
          + (IF c <= nx-2 THEN k[<<r, c+nx>>] ELSE 0)
          + (IF r <= ny-2 THEN k[<<r+ny, c>>] ELSE 0)]

\* apply_PBC: the eight slice additions, each reading the copy
apply_PBC(k, ny, nx) ==
    [i \in Idx(2*ny-1, 2*nx-1) |->
        LET r == i[1]
            c == i[2]
        IN  k[i]
          + (IF c >= nx THEN k[<<r, c-nx>>] ELSE 0)
          + (IF r >= ny /\ c >= nx THEN k[<<r-ny, c-nx>>] ELSE 0)
          + (IF r >= ny THEN k[<<r-ny, c>>] ELSE 0)
          + (IF r >= ny /\ c <= nx-2 THEN k[<<r-ny, c+nx>>] ELSE 0)
          + (IF c <= nx-2 THEN k[<<r, c+nx>>] ELSE 0)
          + (IF r <= ny-2 /\ c <= nx-2 THEN k[<<r+ny, c+nx>>] ELSE 0)
          + (IF r <= ny-2 THEN k[<<r+ny, c>>] ELSE 0)
          + (IF r <= ny-2 /\ c >= nx THEN k[<<r+ny, c-nx>>] ELSE 0)]

\* a loop over the sub-cell that skips no position
cell_occupied_always(l, p) == TRUE

\* is there a magnet at position p of the sub-cell
cell_occupied(l, p) ==
    IF l.in_plane THEN l.orientation[p] # <<0, 0>> ELSE l.occupation[p] # 0

\* the positions of the sub-cell in the order of the two loops (row-major)
cell_order(l) ==
    [k \in 1..(l.unitcell.y * l.unitcell.x) |->
        <<(k-1) \div l.unitcell.x, (k-1) % l.unitcell.x>>]

\* the positions for which a kernel is appended, in order
RECURSIVE kernel_positions(_, _)
kernel_positions(l, k) ==
    IF k = 0 THEN <<>>
    ELSE IF cell_occupied(l, cell_order(l)[k])
         THEN Append(kernel_positions(l, k-1), cell_order(l)[k])
         ELSE kernel_positions(l, k-1)

\* the three kernels of sub-cell position p
kernel_at(l, decay_exponent, p, which) ==
    LET rinv3 == rinv3_of(l, decay_exponent)
        raw == [i \in Idx(2*l.ny-1, 2*l.nx-1) |->
                 LET q == tiled(l, p[1], p[2], i)
                 IN  IF l.in_plane
                     THEN CASE which = "normal" ->
                                 dd_kernel(l, rinv3, l.orientation[p], l.orientation[q], i)
                            [] which = "perpself" ->
                                 dd_kernel(l, rinv3, rotated90(l.orientation[p]), l.orientation[q], i)
                            [] OTHER ->
                                 dd_kernel(l, rinv3, l.orientation[p], rotated90(l.orientation[q]), i)
                     ELSE IF which = "normal" THEN l.occupation[q] * rinv3[i] ELSE 0]
    IN  IF l.PBC THEN apply_PBC(raw, l.ny, l.nx) ELSE raw

DipolarEnergy_initialize(l, decay_exponent) ==
    LET pos == kernel_positions(l, l.unitcell.y * l.unitcell.x)
    IN  [ kernel_unitcell_indices |->
              [p \in Idx(l.unitcell.y, l.unitcell.x) |->
                  IF \E n \in 1..Len(pos) : pos[n] = p
                  THEN (CHOOSE n \in 1..Len(pos) : pos[n] = p) - 1
                  ELSE -1],
          kernel_unitcell |->
              [n \in 1..Len(pos) |-> kernel_at(l, decay_exponent, pos[n], "normal")],
          kernel_perpself_unitcell |->
              [n \in 1..Len(pos) |-> kernel_at(l, decay_exponent, pos[n], "perpself")],
          kernel_perpother_unitcell |->
              [n \in 1..Len(pos) |-> kernel_at(l, decay_exponent, pos[n], "perpother")] ]

(***************************************************************************)
(* class Energy: what the three contributions share.                       *)
(***************************************************************************)
\* energy_switch returning -E instead of -2*E
energy_switch_half(self, s) == -self.E[s]

\* Energy.energy_switch(indices2D) for one site
energy_switch(self, s) == -2 * self.E[s]

\* E[indices2D[0], indices2D[1]] *= -1
negate_at(arr, S) == [i \in DOMAIN arr |-> IF i \in S THEN -arr[i] ELSE arr[i]]

(***************************************************************************)
(* class DipolarEnergy.  The grids E and E_perp hold integers; nonfinite   *)
(* names the grids whose entries are all NaN, which is what a grid of      *)
(* zeros becomes when it is multiplied by the infinite ratio of the        *)
(* prefactor setter.  update() assigns the grids it computes anew.         *)
(***************************************************************************)
\* kernel[::-1, ::-1]
reversed(k, ny, nx) == [i \in Idx(2*ny-1, 2*nx-1) |-> k[<<2*ny-2-i[1], 2*nx-2-i[2]>>]]

\* the sub-cell position of a site
cell_of(l, s) == <<s[1] % l.unitcell.y, s[2] % l.unitcell.x>>

\* total_energy of update() for one stack of kernels: the sum over the
\* sub-cell positions that have a kernel of partial_m*convolve2d(kernel[::-1,::-1],
\* mmoment, mode='valid'); partial_m is mm.m on the sites of that position
\* and 0 elsewhere
dipolar_total_energy(self, l, kernels) ==
    [i \in Idx(l.ny, l.nx) |->
        LET n == self.kernel_unitcell_indices[cell_of(l, i)]
        IN  IF n < 0 THEN 0
            ELSE l.m[i] * convolve2d_valid(reversed(kernels[n+1], l.ny, l.nx),
                                           2*l.ny-1, 2*l.nx-1,
                                           mmoment_of(l), l.ny, l.nx)[i]]

DipolarEnergy_update(self, l) ==
    [self EXCEPT
       !.E = [i \in Idx(l.ny, l.nx) |->
                self.prefactor * l.moment[i]
                * dipolar_total_energy(self, l, self.kernel_unitcell)[i]],
       !.E_perp = IF l.USE_PERP_ENERGY
                  THEN [i \in Idx(l.ny, l.nx) |->
                          self.prefactor * l.moment[i]
                          * dipolar_total_energy(self, l, self.kernel_perpself_unitcell)[i]]
                  ELSE self.E_perp,
       !.nonfinite = IF l.USE_PERP_ENERGY THEN {} ELSE self.nonfinite \ {"E"}]

\* kernel[ny-1-y:2*ny-1-y, nx-1-x:2*nx-1-x], the window centred on site s
usefulkernel(k, l, s) ==
    [i \in Idx(l.ny, l.nx) |-> k[<<l.ny-1-s[1]+i[1], l.nx-1-s[2]+i[2]>>]]

\* update_single adding the interaction once instead of twice
dipolar_single_grid_undoubled(E, prefactor, k, l, s) ==
    negate_at([i \in Idx(l.ny, l.nx) |->
                  E[i] + (prefactor * mmoment_of(l)[s]
                          * (mmoment_of(l)[i] * usefulkernel(k, l, s)[i]))],
              {s})

\* E += 2*interaction; E[y, x] *= -1
dipolar_single_grid(E, prefactor, k, l, s) ==
    negate_at([i \in Idx(l.ny, l.nx) |->
                  E[i] + 2 * (prefactor * mmoment_of(l)[s]
                              * (mmoment_of(l)[i] * usefulkernel(k, l, s)[i]))],
              {s})

\* update_single taking the window of kernel_perpself_unitcell for E_perp
DipolarEnergy_update_single_perpself(self, l, s) ==
    LET n == self.kernel_unitcell_indices[cell_of(l, s)]
    IN  IF n < 0 THEN self
        ELSE [self EXCEPT
                !.E = dipolar_single_grid(self.E, self.prefactor,
                                          self.kernel_unitcell[n+1], l, s),
                !.E_perp = IF l.USE_PERP_ENERGY
                           THEN dipolar_single_grid(self.E_perp, self.prefactor,
                                                    self.kernel_perpself_unitcell[n+1], l, s)
                           ELSE self.E_perp]

DipolarEnergy_update_single(self, l, s) ==
    LET n == self.kernel_unitcell_indices[cell_of(l, s)]
    IN  IF n < 0 THEN self
        ELSE [self EXCEPT
                !.E = dipolar_single_grid(self.E, self.prefactor,
                                          self.kernel_unitcell[n+1], l, s),
                !.E_perp = IF l.USE_PERP_ENERGY
                           THEN dipolar_single_grid(self.E_perp, self.prefactor,
                                                    self.kernel_perpother_unitcell[n+1], l, s)
                           ELSE self.E_perp]

\* the convolution branch: the sites of the group hold mm.m in a zero field,
\* which is convolved with the (possibly reduced) kernel
dipolar_convolution(k, l, group) ==
    LET switched_field == [i \in Idx(l.ny, l.nx) |-> IF i \in group THEN l.m[i] ELSE 0]
        red == l.params.REDUCED_KERNEL_SIZE
        kx == Min(red, l.nx-1)
        ky == Min(red, l.ny-1)
    IN  IF red # 0
        THEN convolve2d_same(switched_field, l.ny, l.nx,
                 [i \in Idx(2*ky+1, 2*kx+1) |-> k[<<l.ny-1-ky+i[1], l.nx-1-kx+i[2]>>]],
                 2*ky+1, 2*kx+1, l.PBC)
        ELSE convolve2d_same(switched_field, l.ny, l.nx, k, 2*l.ny-1, 2*l.nx-1, l.PBC)

\* the direct-sum branch: one kernel window per site of the group
dipolar_direct_sum(k, l, group) ==
    [i \in Idx(l.ny, l.nx) |->
        SumN([j \in 0..(l.ny*l.nx-1) |->
                 LET s == <<j \div l.nx, j % l.nx>>
                 IN  IF s \in group THEN mmoment_of(l)[s] * usefulkernel(k, l, s)[i] ELSE 0],
             l.ny*l.nx)]

\* convolvedkernel of the group at sub-cell position p
dipolar_convolvedkernel(k, l, group) ==
    IF Cardinality(group) > l.params.SIMULTANEOUS_SWITCHES_CONVOLUTION_OR_SUM_CUTOFF
    THEN dipolar_convolution(k, l, group)
    ELSE dipolar_direct_sum(k, l, group)

\* E[indices2D] *= -1, then E += 2*interaction for every group with a kernel
dipolar_multiple_grid(self, E, kernels, l, S) ==
    LET cells == cell_order(l)
        group(c) == {s \in S : cell_of(l, s) = cells[c]}
        E0 == negate_at(E, S)
    IN  [i \in Idx(l.ny, l.nx) |->
           E0[i] + SumN([c \in 0..(Len(cells)-1) |->
                          LET n == self.kernel_unitcell_indices[cells[c+1]]
                          IN  IF group(c+1) = {} \/ n < 0 THEN 0
                              ELSE 2 * (self.prefactor * (mmoment_of(l)[i]
                                   * dipolar_convolvedkernel(kernels[n+1], l, group(c+1))[i]))],
                        Len(cells))]

DipolarEnergy_update_multiple(self, l, S) ==
    [self EXCEPT
       !.E = dipolar_multiple_grid(self, self.E, self.kernel_unitcell, l, S),
       !.E_perp = IF l.USE_PERP_ENERGY
                  THEN dipolar_multiple_grid(self, self.E_perp,
                                             self.kernel_perpother_unitcell, l, S)
                  ELSE self.E_perp]

\* the value of a division a/b of two numbers, kept as a fraction
Fraction(a, b) == [num |-> a, den |-> b]

\* E_tot without the division by two
DipolarEnergy_E_tot_whole(self, l) == Fraction(Sum2(self.E, l.ny, l.nx), 1)

\* DipolarEnergy.E_tot = xp.sum(self.E)/2
DipolarEnergy_E_tot(self, l) == Fraction(Sum2(self.E, l.ny, l.nx), 2)

\* DipolarEnergy.__init__ followed by Energy.initialize(mm)
DipolarEnergy_new(l, prefactor, decay_exponent) ==
    DipolarEnergy_update(
        [ prefactor |-> prefactor, decay_exponent |-> decay_exponent,
          E |-> Zeros(l.ny, l.nx), E_perp |-> Zeros(l.ny, l.nx), nonfinite |-> {} ]
        @@ DipolarEnergy_initialize(l, decay_exponent), l)

\* value/self._prefactor with a stored prefactor of 0 raises ZeroDivisionError
\* when both are Python numbers; numpy says that one of them is a numpy
\* scalar, for which the division gives inf or nan and a warning
prefactor_setter_raises(self, value, numpy) == self.prefactor = 0 /\ ~numpy

\* a setter that keeps the prefactor folded into the cached kernels
DipolarEnergy_set_prefactor_kernels(self, value, numpy) ==
    IF prefactor_setter_raises(self, value, numpy) \/ self.prefactor = 0 THEN self
    ELSE [self EXCEPT
            !.E = [i \in DOMAIN self.E |-> (self.E[i] * value) \div self.prefactor],
            !.E_perp = [i \in DOMAIN self.E_perp |->
                          (self.E_perp[i] * value) \div self.prefactor],
            !.kernel_unitcell =
                [k \in DOMAIN self.kernel_unitcell |->
                   [i \in DOMAIN self.kernel_unitcell[k] |->
                      (self.kernel_unitcell[k][i] * value) \div self.prefactor]],
            !.prefactor = value]

\* the prefactor setter: E *= value/_prefactor, E_perp *= value/_prefactor,
\* _prefactor = value.  Every entry of E and E_perp is a multiple of the
\* prefactor, so the integer division is exact; with a stored prefactor of 0
\* the grids are zero and their product with inf or nan is NaN
DipolarEnergy_set_prefactor(self, value, numpy) ==
    IF prefactor_setter_raises(self, value, numpy) THEN self
    ELSE IF self.prefactor = 0
         THEN [self EXCEPT !.nonfinite = {"E", "E_perp"}, !.prefactor = value]
         ELSE [self EXCEPT
                 !.E = [i \in DOMAIN self.E |-> (self.E[i] * value) \div self.prefactor],
                 !.E_perp = [i \in DOMAIN self.E_perp |->
                               (self.E_perp[i] * value) \div self.prefactor],
                 !.prefactor = value]

(***************************************************************************)
(* class ZeemanEnergy.  The field magnitude is a scalar, the angle a       *)
(* number of quarter turns.  An optional argument is <<>> for None and     *)
(* <<v>> for the value v.                                                  *)
(***************************************************************************)
\* update that writes E_perp whatever USE_PERP_ENERGY is
ZeemanEnergy_update_perp_always(self, l) ==
    [self EXCEPT
       !.E = [i \in Idx(l.ny, l.nx) |-> l.m[i] * self.E_factor[i]],
       !.E_perp = [i \in Idx(l.ny, l.nx) |-> l.m[i] * self.E_factor_perp[i]]]

ZeemanEnergy_update(self, l) ==
    [self EXCEPT
       !.E = [i \in Idx(l.ny, l.nx) |-> l.m[i] * self.E_factor[i]],
       !.E_perp = IF l.USE_PERP_ENERGY
                  THEN [i \in Idx(l.ny, l.nx) |-> l.m[i] * self.E_factor_perp[i]]
                  ELSE self.E_perp]

\* set_field without the final update()
ZeemanEnergy_set_field_stale(self, l, magnitude, angle) ==
    LET mag == IF magnitude # <<>> THEN magnitude[1] ELSE self._magnitude
        ang == IF angle # <<>> THEN angle[1] ELSE self._angle
    IN  [self EXCEPT !._magnitude = mag, !._angle = ang]

ZeemanEnergy_set_field(self, l, magnitude, angle) ==
    LET mag == IF magnitude # <<>> THEN magnitude[1] ELSE self._magnitude
        ang == IF angle # <<>> THEN angle[1] ELSE self._angle
        B_ext == <<mag * Cos4(ang), mag * Sin4(ang)>>
    IN  ZeemanEnergy_update(
          [self EXCEPT
             !._magnitude = mag,
             !._angle = ang,
             !.E_factor = [i \in Idx(l.ny, l.nx) |->
                 IF l.in_plane
                 THEN -l.moment[i] * (B_ext[1]*l.orientation[i][1] + B_ext[2]*l.orientation[i][2])
                 ELSE -l.moment[i] * mag],
             !.E_factor_perp = [i \in Idx(l.ny, l.nx) |->
                 IF l.in_plane
                 THEN -l.moment[i] * (B_ext[2]*l.orientation[i][1] - B_ext[1]*l.orientation[i][2])
                 ELSE 0]], l)

ZeemanEnergy_update_single(self, l, s) ==
    [self EXCEPT
       !.E = negate_at(self.E, {s}),
       !.E_perp = IF l.USE_PERP_ENERGY THEN negate_at(self.E_perp, {s}) ELSE self.E_perp]

\* update_multiple that leaves E_perp alone
ZeemanEnergy_update_multiple_noperp(self, l, S) ==
    [self EXCEPT !.E = negate_at(self.E, S)]

ZeemanEnergy_update_multiple(self, l, S) ==
    [self EXCEPT
       !.E = negate_at(self.E, S),
       !.E_perp = IF l.USE_PERP_ENERGY THEN negate_at(self.E_perp, S) ELSE self.E_perp]

\* E_tot halved as for the pairwise contributions
ZeemanEnergy_E_tot_halved(self, l) == Fraction(Sum2(self.E, l.ny, l.nx), 2)

\* ZeemanEnergy.E_tot = xp.sum(self.E)
ZeemanEnergy_E_tot(self, l) == Fraction(Sum2(self.E, l.ny, l.nx), 1)

\* ZeemanEnergy.__init__ followed by Energy.initialize(mm)
ZeemanEnergy_new(l, magnitude, angle) ==
    ZeemanEnergy_set_field(
        [ _magnitude |-> magnitude, _angle |-> angle,
          E_factor |-> Zeros(l.ny, l.nx), E_factor_perp |-> Zeros(l.ny, l.nx),
          E |-> Zeros(l.ny, l.nx), E_perp |-> Zeros(l.ny, l.nx) ],
        l, <<magnitude>>, <<angle>>)

(***************************************************************************)
(* class ExchangeEnergy.  On the kagome lattice the orientation is kept in *)
(* units of <<sqrt(3)/2, 1/2>>, so that E is in units of 1/4 and E_perp in *)
(* units of sqrt(3)/4.                                                     *)
(***************************************************************************)
\* the shape of a 2D array
shape_of(arr) ==
    <<Cardinality({i[1] : i \in DOMAIN arr}), Cardinality({i[2] : i \in DOMAIN arr})>>

\* the squares of the units of the two orientation components
orientation_weights(l) == IF l.geometry = "IP_Kagome" THEN <<3, 1>> ELSE <<1, 1>>

ExchangeEnergy_update(self, l) ==
    LET mx == [i \in Idx(l.ny, l.nx) |-> l.orientation[i][1] * l.m[i]]
        my == [i \in Idx(l.ny, l.nx) |-> l.orientation[i][2] * l.m[i]]
        w == orientation_weights(l)
        sum_of(field) == convolve2d_same(field, l.ny, l.nx, self.local_interaction,
                                         shape_of(self.local_interaction)[1],
                                         shape_of(self.local_interaction)[2], l.PBC)
    IN  IF l.in_plane
        THEN [self EXCEPT
                !.E = [i \in Idx(l.ny, l.nx) |->
                         -self.J * (w[1]*sum_of(mx)[i]*mx[i] + w[2]*sum_of(my)[i]*my[i])],
                !.E_perp = IF l.USE_PERP_ENERGY
                           THEN [i \in Idx(l.ny, l.nx) |->
                                   -self.J * (sum_of(my)[i]*mx[i] - sum_of(mx)[i]*my[i])]
                           ELSE self.E_perp]
        ELSE [self EXCEPT
                !.E = [i \in Idx(l.ny, l.nx) |-> -self.J * (sum_of(l.m)[i] * l.m[i])],
                !.E_perp = IF l.USE_PERP_ENERGY THEN Zeros(l.ny, l.nx) ELSE self.E_perp]

ExchangeEnergy_update_single(self, l, s) == ExchangeEnergy_update(self, l)

ExchangeEnergy_update_multiple(self, l, S) == ExchangeEnergy_update(self, l)

\* ExchangeEnergy.E_tot = xp.sum(self.E)/2
ExchangeEnergy_E_tot(self, l) == Fraction(Sum2(self.E, l.ny, l.nx), 2)

\* ExchangeEnergy.__init__ followed by Energy.initialize(mm)
ExchangeEnergy_new(l, J) ==
    ExchangeEnergy_update(
        [ J |-> J, local_interaction |-> nearest_neighbors_of(l.geometry),
          E |-> Zeros(l.ny, l.nx), E_perp |-> Zeros(l.ny, l.nx) ], l)

(***************************************************************************)
(* The state machine.  mm is the lattice; zeeman, dipolar and exchange are *)
(* the contributions bound to it, or Absent; last names the last operation,*)
(* its sites and its arguments; nsteps counts the operations.              *)
(***************************************************************************)
Absent == [absent |-> TRUE]

Present(e) == "E" \in DOMAIN e

\* the sites the scheduler picks from: every occupied site of a lattice of at
\* most MaxSites sites, a sample of the occupied sites of a larger one
SampleSites == {<<0, 0>>, <<0, 1>>, <<1, 2>>, <<2, 3>>, <<3, 3>>}

Candidates(l) ==
    IF l.ny * l.nx > MaxSites THEN Occupied(l) \cap SampleSites ELSE Occupied(l)

\* the sets of at most k sites of C
RECURSIVE SubsetsUpTo(_, _)
SubsetsUpTo(C, k) ==
    IF k = 0 THEN {{}}
    ELSE LET prev == SubsetsUpTo(C, k-1)
         IN  prev \cup {S \cup {s} : S \in prev, s \in C}

\* the sets of sites one batch can switch
Batches(l) == SubsetsUpTo(Candidates(l), MaxBatch) \ {{}}

\* mm.m with the sites of S negated
switched(l, S) == [l EXCEPT !.m = negate_at(l.m, S)]

\* the scheduler negates mm.m at one site and calls update_single of every
\* contribution
SwitchSingle(s) ==
    /\ nsteps < MaxSteps
    /\ mm' = switched(mm, {s})
    /\ zeeman' = IF Present(zeeman) THEN ZeemanEnergy_update_single(zeeman, mm', s) ELSE zeeman
    /\ dipolar' = IF Present(dipolar) THEN DipolarEnergy_update_single(dipolar, mm', s) ELSE dipolar
    /\ exchange' = IF Present(exchange) THEN ExchangeEnergy_update_single(exchange, mm', s) ELSE exchange
    /\ last' = [op |-> "update_single", sites |-> {s}, args |-> <<>>, raised |-> FALSE]
    /\ nsteps' = nsteps + 1
    /\ UNCHANGED utilvars

\* the scheduler negates mm.m at the sites of S and calls update_multiple of
\* every contribution
SwitchMultiple(S) ==
    /\ nsteps < MaxSteps
    /\ mm' = switched(mm, S)
    /\ zeeman' = IF Present(zeeman) THEN ZeemanEnergy_update_multiple(zeeman, mm', S) ELSE zeeman
    /\ dipolar' = IF Present(dipolar) THEN DipolarEnergy_update_multiple(dipolar, mm', S) ELSE dipolar
    /\ exchange' = IF Present(exchange) THEN ExchangeEnergy_update_multiple(exchange, mm', S) ELSE exchange
    /\ last' = [op |-> "update_multiple", sites |-> S, args |-> <<>>, raised |-> FALSE]
    /\ nsteps' = nsteps + 1
    /\ UNCHANGED utilvars

\* update() of every contribution
Update ==
    /\ nsteps < MaxSteps
    /\ zeeman' = IF Present(zeeman) THEN ZeemanEnergy_update(zeeman, mm) ELSE zeeman
    /\ dipolar' = IF Present(dipolar) THEN DipolarEnergy_update(dipolar, mm) ELSE dipolar
    /\ exchange' = IF Present(exchange) THEN ExchangeEnergy_update(exchange, mm) ELSE exchange
    /\ last' = [op |-> "update", sites |-> {}, args |-> <<>>, raised |-> FALSE]
    /\ nsteps' = nsteps + 1
    /\ UNCHANGED utilvars
    /\ UNCHANGED mm

\* set_field(magnitude, angle); the magnitude setter is set_field(magnitude=value)
\* and the angle setter set_field(angle=value)
Magnitudes == {0, 2}
Angles == {0, 1, 2}

Optional(V) == {<<>>} \cup {<<v>> : v \in V}

SetField(magnitude, angle) ==
    /\ nsteps < MaxSteps
    /\ Present(zeeman)
    /\ zeeman' = ZeemanEnergy_set_field(zeeman, mm, magnitude, angle)
    /\ last' = [op |-> "set_field", sites |-> {}, args |-> <<magnitude, angle>>, raised |-> FALSE]
    /\ nsteps' = nsteps + 1
    /\ UNCHANGED utilvars
    /\ UNCHANGED <<mm, dipolar, exchange>>

\* an assignment to DipolarEnergy.prefactor
PrefactorValues == {0, 1, 2}

SetPrefactor(value, numpy) ==
    /\ nsteps < MaxSteps
    /\ Present(dipolar)
    /\ dipolar' = DipolarEnergy_set_prefactor(dipolar, value, numpy)
    /\ last' = [op |-> "set_prefactor", sites |-> {}, args |-> <<value>>,
                raised |-> prefactor_setter_raises(dipolar, value, numpy)]
    /\ nsteps' = nsteps + 1
    /\ UNCHANGED utilvars
    /\ UNCHANGED <<mm, zeeman, exchange>>

\* the lattices and settings a run starts from
Config(geometry, ny, nx, PBC, perp, pattern, vacant, moments, cutoff, reduced) ==
    [ geometry |-> geometry, ny |-> ny, nx |-> nx, PBC |-> PBC, USE_PERP_ENERGY |-> perp,
      pattern |-> pattern, vacant |-> vacant, moments |-> moments,
      cutoff |-> cutoff, reduced |-> reduced ]

Cutoffs == {0, 50}
Reduced == {0, 1}

DipolarConfigs ==
    { Config("OOP_Square", 4, 4, TRUE, FALSE, "uniform", 0, "unit", c, 0) : c \in Cutoffs }
    \cup { Config("OOP_Square", 2, 3, pbc, FALSE, "afm", 0, mo, c, 0) :
             pbc \in BOOLEAN, mo \in {"unit", "varied"}, c \in Cutoffs }
    \cup { Config("OOP_Square", 2, 3, FALSE, FALSE, "afm", 0, "unit", 0, r) : r \in Reduced }
    \cup { Config("IP_Square", 2, 4, TRUE, TRUE, "uniform", v, "varied", c, 0) :
             v \in {0, 1}, c \in Cutoffs }
    \cup { Config("IP_Square", 3, 3, FALSE, TRUE, "afm", 1, mo, c, 0) :
             mo \in {"unit", "varied"}, c \in Cutoffs }

InitDipolar ==
    /\ \E c \in DipolarConfigs :
         /\ mm = Magnets(c)
         /\ dipolar = DipolarEnergy_new(mm, 1, -3)
    /\ zeeman = Absent
    /\ exchange = Absent
    /\ last = [op |-> "initialize", sites |-> {}, args |-> <<>>, raised |-> FALSE]
    /\ nsteps = 0
    /\ NoUtils

NextDipolar ==
    \/ nsteps < MaxSteps /\ \E s \in Candidates(mm) : SwitchSingle(s)
    \/ nsteps < MaxSteps /\ \E S \in Batches(mm) : SwitchMultiple(S)
    \/ Update

SpecDipolar == InitDipolar /\ [][NextDipolar]_vars

ZeemanConfigs ==
    { Config("IP_Square", 10, 10, TRUE, FALSE, pat, v, "unit", 0, 0) :
             pat \in {"uniform", "afm"}, v \in {0, 1} }
    \cup { Config("IP_Square", 3, 3, FALSE, TRUE, "afm", 1, "varied", 0, 0),
           Config("OOP_Square", 2, 3, TRUE, TRUE, "afm", 0, "varied", 0, 0),
           Config("OOP_Square", 2, 3, FALSE, FALSE, "uniform", 0, "varied", 0, 0) }

InitZeeman ==
    /\ \E c \in ZeemanConfigs, f \in {<<1, 0>>, <<3, 1>>} :
         /\ mm = Magnets(c)
         /\ zeeman = ZeemanEnergy_new(mm, f[1], f[2])
    /\ dipolar = Absent
    /\ exchange = Absent
    /\ last = [op |-> "initialize", sites |-> {}, args |-> <<>>, raised |-> FALSE]
    /\ nsteps = 0
    /\ NoUtils

NextZeeman ==
    \/ nsteps < MaxSteps /\ \E s \in Candidates(mm) : SwitchSingle(s)
    \/ nsteps < MaxSteps /\ \E S \in Batches(mm) : SwitchMultiple(S)
    \/ Update
    \/ \E magnitude \in Optional(Magnitudes), angle \in Optional(Angles) :
          SetField(magnitude, angle)

SpecZeeman == InitZeeman /\ [][NextZeeman]_vars

\* the three contributions bound to one lattice
Configs ==
    { Config("OOP_Square", 2, 3, pbc, FALSE, "afm", 0, "varied", 50, 0) : pbc \in BOOLEAN }
    \cup { Config("IP_Square", 3, 3, FALSE, TRUE, "afm", 1, "varied", 50, 0),
           Config("IP_Square", 2, 4, TRUE, TRUE, "uniform", 0, "unit", 0, 0) }

Init ==
    /\ \E c \in Configs :
         /\ mm = Magnets(c)
         /\ zeeman = ZeemanEnergy_new(mm, 1, 0)
         /\ dipolar = DipolarEnergy_new(mm, 1, -3)
         /\ exchange = ExchangeEnergy_new(mm, 1)
    /\ last = [op |-> "initialize", sites |-> {}, args |-> <<>>, raised |-> FALSE]
    /\ nsteps = 0
    /\ NoUtils

Next ==
    \/ nsteps < MaxSteps /\ \E s \in Candidates(mm) : SwitchSingle(s)
    \/ nsteps < MaxSteps /\ \E S \in Batches(mm) : SwitchMultiple(S)
    \/ Update
    \/ \E magnitude \in Optional(Magnitudes), angle \in Optional(Angles) :
          SetField(magnitude, angle)

Spec == Init /\ [][Next]_vars

\* E is what update() computes from the spin configuration
DipolarConsistent(self, l) == self.E = DipolarEnergy_update(self, l).E

\* C1: a single switch (negate mm.m at one occupied site, update_single) made
\* in a state where E equals update() leaves E equal to update() of the new
\* spin configuration, on open and on periodic lattices
C1_SingleSwitchExact ==
    [][(last'.op = "update_single" /\ DipolarConsistent(dipolar, mm))
          => DipolarConsistent(dipolar', mm')]_vars

\* C1 case: a site of the periodic 4x4 out-of-plane lattice, all spins +1
\* before, was switched by update_single and E changed
C1_Witness ==
    /\ last.op = "update_single" /\ nsteps = 1
    /\ mm.PBC /\ ~mm.in_plane /\ mm.ny = 4 /\ mm.nx = 4
    /\ \E s \in Occupied(mm) : mm.m[s] = -1 /\ dipolar.E[s] < 0
    /\ DipolarConsistent(dipolar, mm)

\* update_single for each site of S in turn, mm.m negated at the site first
RECURSIVE SequentialSingles(_, _, _)
SequentialSingles(self, l, S) ==
    IF S = {} THEN self
    ELSE LET s == CHOOSE t \in S : TRUE
             l1 == switched(l, {s})
         IN  SequentialSingles(DipolarEnergy_update_single(self, l1, s), l1, S \ {s})

\* C2: negating mm.m at the sites of S and one update_multiple(S) gives the E
\* of negating and update_single site by site, whichever strategy each group
\* takes
C2_BatchDecomposable ==
    [][last'.op = "update_multiple"
          => dipolar'.E = SequentialSingles(dipolar, mm, last'.sites).E]_vars

\* update_multiple(S) with the cutoff set to c and the reduced kernel size to r
ForcedMultiple(self, l, S, c, r) ==
    DipolarEnergy_update_multiple(self,
        [l EXCEPT !.params = [ SIMULTANEOUS_SWITCHES_CONVOLUTION_OR_SUM_CUTOFF |-> c,
                               REDUCED_KERNEL_SIZE |-> r ]], S)

\* C3: on a periodic lattice with the full kernel, update_multiple gives the
\* same E with the cutoff at 0 (every group convolved) and at 50 (every group
\* summed directly)
C3_StrategiesAgreePBC ==
    [][(last'.op = "update_multiple" /\ mm.PBC /\ mm.params.REDUCED_KERNEL_SIZE = 0)
          => /\ ForcedMultiple(dipolar, mm', last'.sites, 0, 0).E
                  = ForcedMultiple(dipolar, mm', last'.sites, 50, 0).E
             /\ dipolar'.E = ForcedMultiple(dipolar, mm', last'.sites, 0, 0).E]_vars

\* the groups update_multiple splits S into
Groups(l, S) == {{s \in S : cell_of(l, s) = p} : p \in {cell_of(l, t) : t \in S}}

\* C4: on an open lattice with the full kernel, the field the convolution
\* branch accumulates for a group is the one the direct-sum branch builds,
\* for every moment magnitude
C4_ConvolutionUsesMoments ==
    [][(last'.op = "update_multiple" /\ ~mm.PBC /\ mm.params.REDUCED_KERNEL_SIZE = 0)
          => \A g \in Groups(mm, last'.sites) :
               LET k == dipolar.kernel_unitcell[
                          dipolar.kernel_unitcell_indices[cell_of(mm, CHOOSE s \in g : TRUE)] + 1]
               IN  dipolar_convolution(k, mm', g) = dipolar_direct_sum(k, mm', g)]_vars

\* C5: when every group is convolved, update_multiple gives the same E for
\* every REDUCED_KERNEL_SIZE
C5_ReducedKernelNoEffect ==
    [][(last'.op = "update_multiple"
        /\ mm.params.SIMULTANEOUS_SWITCHES_CONVOLUTION_OR_SUM_CUTOFF = 0)
          => \A r \in Reduced :
               dipolar'.E = ForcedMultiple(dipolar, mm', last'.sites, 0, r).E]_vars

\* the difference b - a of two fractions equals the integer d
FractionDiffIs(a, b, d) == b.num * a.den - a.num * b.den = d * a.den * b.den

\* C6: in a state where E equals update(), energy_switch of a site (-2*E[s])
\* is the change of E_tot made by negating mm.m[s] and update_single(s)
C6_SwitchEnergyIsDelta ==
    [][(last'.op = "update_single" /\ DipolarConsistent(dipolar, mm))
          => \A s \in last'.sites :
               FractionDiffIs(DipolarEnergy_E_tot(dipolar, mm),
                              DipolarEnergy_E_tot(dipolar', mm'),
                              energy_switch(dipolar, s))]_vars

\* C6 case: a site with non-zero energy was switched from a consistent state
C6_Witness ==
    /\ last.op = "update_single"
    /\ DipolarConsistent(dipolar, mm)
    /\ \E s \in last.sites : dipolar.E[s] # 0
    /\ mm.in_plane /\ mm.moment # [i \in Idx(mm.ny, mm.nx) |-> 1]

\* twice a fraction equals the integer d
HalfOf(f, d) == 2 * f.num = d * f.den

\* a fraction equals the integer d
WholeOf(f, d) == f.num = d * f.den

\* C7: E_tot of the dipolar and of the exchange contribution is half the sum
\* of the entries of E, E_tot of the Zeeman contribution is the whole sum
C7_DoubleCounting ==
    /\ HalfOf(DipolarEnergy_E_tot(dipolar, mm), Sum2(dipolar.E, mm.ny, mm.nx))
    /\ HalfOf(ExchangeEnergy_E_tot(exchange, mm), Sum2(exchange.E, mm.ny, mm.nx))
    /\ WholeOf(ZeemanEnergy_E_tot(zeeman, mm), Sum2(zeeman.E, mm.ny, mm.nx))

\* C7 case: after a switch, the three grids have non-zero sums
C7_Witness ==
    /\ last.op \in {"update_single", "update_multiple"}
    /\ Sum2(dipolar.E, mm.ny, mm.nx) # 0
    /\ Sum2(exchange.E, mm.ny, mm.nx) # 0
    /\ Sum2(zeeman.E, mm.ny, mm.nx) # 0

\* C8: update_single and update_multiple of the Zeeman contribution negate E
\* (and E_perp when USE_PERP_ENERGY) at the given sites, leave every other
\* entry as it was, and with the flips applied to mm.m the grids are those of
\* update()
C8_ZeemanNegatesSites ==
    [][last'.op \in {"update_single", "update_multiple"}
          => /\ \A i \in Idx(mm.ny, mm.nx) :
                  /\ zeeman'.E[i] = IF i \in last'.sites THEN -zeeman.E[i] ELSE zeeman.E[i]
                  /\ zeeman'.E_perp[i] =
                        IF i \in last'.sites /\ mm.USE_PERP_ENERGY
                        THEN -zeeman.E_perp[i] ELSE zeeman.E_perp[i]
             /\ ZeemanEnergy_update(zeeman', mm') = zeeman']_vars

\* C8 case: a batch of two sites with non-zero E and E_perp was switched
C8_Witness ==
    /\ last.op = "update_multiple" /\ Cardinality(last.sites) = 2
    /\ mm.USE_PERP_ENERGY
    /\ \E s \in last.sites : zeeman.E[s] # 0
    /\ \E s \in last.sites : zeeman.E_perp[s] # 0

\* the Zeeman energy of site i in the field of magnitude mag at angle ang
ZeemanSiteEnergy(l, mag, ang, i) ==
    IF l.in_plane
    THEN -(l.m[i] * l.moment[i]
           * (mag*Cos4(ang)*l.orientation[i][1] + mag*Sin4(ang)*l.orientation[i][2]))
    ELSE -(l.m[i] * l.moment[i] * mag)

\* C9: right after set_field E is mm.m*E_factor for the new field and the
\* current spins; an argument that is None keeps the stored value
C9_SetFieldRecomputes ==
    [][last'.op = "set_field"
          => LET mag == IF last'.args[1] = <<>> THEN zeeman._magnitude ELSE last'.args[1][1]
                 ang == IF last'.args[2] = <<>> THEN zeeman._angle ELSE last'.args[2][1]
             IN  /\ zeeman'._magnitude = mag
                 /\ zeeman'._angle = ang
                 /\ \A i \in Idx(mm.ny, mm.nx) :
                      zeeman'.E[i] = ZeemanSiteEnergy(mm', mag, ang, i)]_vars

\* C9 case: after a switch the angle alone was changed, and E changed with it
C9_Witness ==
    /\ last.op = "set_field" /\ nsteps = 2
    /\ last.args[1] = <<>> /\ last.args[2] # <<>>
    /\ zeeman._magnitude # 0
    /\ \E i \in Idx(mm.ny, mm.nx) : mm.m[i] = -1 /\ zeeman.E[i] # 0

\* the 10x10 periodic in-plane square lattice with unit moments
Scenario10(l) ==
    /\ l.geometry = "IP_Square" /\ l.ny = 10 /\ l.nx = 10 /\ l.PBC
    /\ \A i \in Idx(l.ny, l.nx) : l.moment[i] = 1

\* C10 as claimed: on that lattice, with the field at angle 0, E_tot is minus
\* the sum over the sites of sign*moment*B
C10_Original ==
    (Scenario10(mm) /\ zeeman._angle = 0)
        => WholeOf(ZeemanEnergy_E_tot(zeeman, mm),
                   -Sum2([i \in Idx(mm.ny, mm.nx) |->
                            mm.m[i] * mm.moment[i] * zeeman._magnitude], mm.ny, mm.nx))

\* C10 as amended: E_tot is minus the sum over the sites of
\* sign*moment*B*orientation_x, the sites oriented along y and the unoccupied
\* sites adding nothing
C10_ZeemanTotal ==
    (Scenario10(mm) /\ zeeman._angle = 0)
        => WholeOf(ZeemanEnergy_E_tot(zeeman, mm),
                   -Sum2([i \in Idx(mm.ny, mm.nx) |->
                            mm.m[i] * mm.moment[i] * zeeman._magnitude
                            * mm.orientation[i][1]], mm.ny, mm.nx))

\* C10 case: the scenario lattice in a non-zero field at angle 0, after a switch
C10_Witness ==
    /\ Scenario10(mm) /\ zeeman._angle = 0 /\ zeeman._magnitude # 0
    /\ last.op = "update_single"
    /\ ZeemanEnergy_E_tot(zeeman, mm).num # 0

(***************************************************************************)
(* Out-of-plane lattices with the three contributions, field changes and   *)
(* prefactor changes.                                                      *)
(***************************************************************************)
OOPConfigs ==
    { Config("OOP_Square", 2, 3, TRUE, TRUE, "afm", 0, "varied", 0, 0),
      Config("OOP_Square", 2, 3, FALSE, TRUE, "afm", 0, "varied", 50, 0),
      Config("OOP_Square", 2, 3, TRUE, FALSE, "afm", 0, "varied", 50, 0),
      Config("OOP_Square", 2, 3, FALSE, FALSE, "uniform", 0, "unit", 0, 0) }

InitOOP ==
    /\ \E c \in OOPConfigs :
         /\ mm = Magnets(c)
         /\ zeeman = ZeemanEnergy_new(mm, 1, 0)
         /\ dipolar = DipolarEnergy_new(mm, 1, -3)
         /\ exchange = ExchangeEnergy_new(mm, 1)
    /\ last = [op |-> "initialize", sites |-> {}, args |-> <<>>, raised |-> FALSE]
    /\ nsteps = 0
    /\ NoUtils

\* the field changes tried: the magnitude alone, the angle alone, both
FieldChanges == {<< <<2>>, <<>> >>, << <<>>, <<1>> >>, << <<0>>, <<2>> >>}

NextOOP ==
    \/ nsteps < MaxSteps /\ \E s \in Candidates(mm) : SwitchSingle(s)
    \/ nsteps < MaxSteps /\ \E S \in Batches(mm) : SwitchMultiple(S)
    \/ Update
    \/ \E f \in FieldChanges : SetField(f[1], f[2])
    \/ \E value \in PrefactorValues, numpy \in BOOLEAN : SetPrefactor(value, numpy)

SpecOOP == InitOOP /\ [][NextOOP]_vars

\* C11: on an out-of-plane lattice E_perp of the Zeeman, the dipolar and the
\* exchange contribution is zero at every site in every reachable state
C11_PerpZeroOutOfPlane ==
    ~mm.in_plane
        => /\ zeeman.E_perp = Zeros(mm.ny, mm.nx)
           /\ exchange.E_perp = Zeros(mm.ny, mm.nx)
           /\ dipolar.E_perp = Zeros(mm.ny, mm.nx)
           /\ "E_perp" \notin dipolar.nonfinite

(***************************************************************************)
(* Periodic lattices whose dimensions are multiples of the sub-cell.       *)
(***************************************************************************)
PeriodicConfigs ==
    { Config("OOP_Square", 4, 4, TRUE, FALSE, "uniform", 0, "unit", 50, 0),
      Config("OOP_Square", 2, 3, TRUE, FALSE, "afm", 0, "varied", 50, 0),
      Config("IP_Square", 2, 4, TRUE, TRUE, "uniform", 1, "varied", 50, 0),
      Config("IP_Square", 4, 4, TRUE, FALSE, "afm", 0, "unit", 50, 0) }

InitPeriodic ==
    /\ \E c \in PeriodicConfigs :
         /\ mm = Magnets(c)
         /\ dipolar = DipolarEnergy_new(mm, 1, -3)
    /\ zeeman = Absent
    /\ exchange = Absent
    /\ last = [op |-> "initialize", sites |-> {}, args |-> <<>>, raised |-> FALSE]
    /\ nsteps = 0
    /\ NoUtils

NextPeriodic ==
    \/ nsteps < MaxSteps /\ \E s \in Candidates(mm) : SwitchSingle(s)
    \/ nsteps < MaxSteps /\ \E S \in Batches(mm) : SwitchMultiple(S)
    \/ Update

SpecPeriodic == InitPeriodic /\ [][NextPeriodic]_vars

\* a grid shifted cyclically by a rows and b columns
rolled(arr, ny, nx, a, b) ==
    [i \in Idx(ny, nx) |-> arr[<<(i[1] - a) % ny, (i[2] - b) % nx>>]]

\* the lattice with its magnets (sign and moment) shifted cyclically
shifted(l, a, b) ==
    [l EXCEPT !.m = rolled(l.m, l.ny, l.nx, a, b),
              !.moment = rolled(l.moment, l.ny, l.nx, a, b)]

\* the shifts by one sub-cell along y, along x and along both
SubcellShifts(l) ==
    {<<a * l.unitcell.y, b * l.unitcell.x>> : a \in 0..1, b \in 0..1} \ {<<0, 0>>}

\* equal values at any two kernel offsets that differ by a multiple of (ny, nx)
KernelPeriodic(k, ny, nx) ==
    \A i \in Idx(2*ny-1, 2*nx-1), j \in Idx(2*ny-1, 2*nx-1) :
        ((i[1] - j[1]) % ny = 0 /\ (i[2] - j[2]) % nx = 0) => k[i] = k[j]

\* C12: on a periodic lattice whose dimensions are multiples of the sub-cell
\* every folded kernel has equal values at offsets that differ by a multiple
\* of (ny, nx), and update() of the lattice shifted cyclically by whole
\* sub-cells gives the E grid of update() shifted by the same amount, with
\* the same E_tot
C12_PeriodicTranslation ==
    (mm.PBC /\ mm.ny % mm.unitcell.y = 0 /\ mm.nx % mm.unitcell.x = 0)
        => /\ \A n \in 1..Len(dipolar.kernel_unitcell) :
                /\ KernelPeriodic(dipolar.kernel_unitcell[n], mm.ny, mm.nx)
                /\ KernelPeriodic(dipolar.kernel_perpself_unitcell[n], mm.ny, mm.nx)
                /\ KernelPeriodic(dipolar.kernel_perpother_unitcell[n], mm.ny, mm.nx)
           /\ \A sh \in SubcellShifts(mm) :
                LET here == DipolarEnergy_update(dipolar, mm)
                    there == DipolarEnergy_update(dipolar, shifted(mm, sh[1], sh[2]))
                IN  /\ there.E = rolled(here.E, mm.ny, mm.nx, sh[1], sh[2])
                    /\ there.E_perp = rolled(here.E_perp, mm.ny, mm.nx, sh[1], sh[2])
                    /\ DipolarEnergy_E_tot(there, mm) = DipolarEnergy_E_tot(here, mm)

\* C12 case: after a switch on a periodic in-plane lattice, a shift by one
\* sub-cell moves the E grid of update() to a different grid
C12_Witness ==
    /\ mm.PBC /\ mm.in_plane /\ last.op \in {"update_single", "update_multiple"}
    /\ mm.ny % mm.unitcell.y = 0 /\ mm.nx % mm.unitcell.x = 0
    /\ \E sh \in SubcellShifts(mm) :
          LET here == DipolarEnergy_update(dipolar, mm)
          IN  rolled(here.E, mm.ny, mm.nx, sh[1], sh[2]) # here.E

(***************************************************************************)
(* Calls that break the caller's contract: update_single and               *)
(* update_multiple of one contribution for an index that holds no magnet   *)
(* or lies outside the lattice.  An index is a pair of integers used as    *)
(* numpy uses it: an index i of an axis of length n is valid for           *)
(* -n <= i < n, a negative one counting from the end, and IndexError       *)
(* otherwise.                                                              *)
(***************************************************************************)
IndexError(l, s) == ~(s[1] \in (-l.ny)..(l.ny-1) /\ s[2] \in (-l.nx)..(l.nx-1))

\* the entry a valid index addresses
numpy_site(l, s) == <<s[1] % l.ny, s[2] % l.nx>>

\* self.E[index2D[0,0], index2D[1,0]] *= -1 for any index
ZeemanEnergy_update_single_raises(self, l, s) == IndexError(l, s)

ZeemanEnergy_update_single_any(self, l, s) ==
    IF ZeemanEnergy_update_single_raises(self, l, s) THEN self
    ELSE ZeemanEnergy_update_single(self, l, numpy_site(l, s))

\* self.E[indices2D[0], indices2D[1]] *= -1 for any indices
ZeemanEnergy_update_multiple_raises(self, l, S) == \E s \in S : IndexError(l, s)

ZeemanEnergy_update_multiple_any(self, l, S) ==
    IF ZeemanEnergy_update_multiple_raises(self, l, S) THEN self
    ELSE ZeemanEnergy_update_multiple(self, l, {numpy_site(l, s) : s \in S})

\* the number of rows of kernel[ny-1-y:2*ny-1-y] (columns, for x): the stop is
\* cut at the end of the kernel
window_size(n, y) == n + Min(y, 0)

\* xp.multiply(mmoment, usefulkernel) broadcasts an axis of the window of
\* length 1 and raises ValueError for any other length that is not that of
\* the lattice
broadcastable(l, s) ==
    /\ window_size(l.ny, s[1]) \in {l.ny, 1}
    /\ window_size(l.nx, s[2]) \in {l.nx, 1}

\* usefulkernel broadcast to the shape of the lattice
usefulkernel_any(k, l, s) ==
    [i \in Idx(l.ny, l.nx) |->
        k[<<l.ny-1-s[1] + (IF window_size(l.ny, s[1]) = l.ny THEN i[1] ELSE 0),
            l.nx-1-s[2] + (IF window_size(l.nx, s[2]) = l.nx THEN i[2] ELSE 0)>>]]

\* E += 2*interaction; E[y, x] *= -1 for a valid index that broadcasts
dipolar_single_grid_any(E, prefactor, k, l, s) ==
    negate_at([i \in Idx(l.ny, l.nx) |->
                  E[i] + 2 * (prefactor * mmoment_of(l)[numpy_site(l, s)]
                              * (mmoment_of(l)[i] * usefulkernel_any(k, l, s)[i]))],
              {numpy_site(l, s)})

\* update_single for any index: no kernel, return; mmoment[y, x] raises
\* IndexError; xp.multiply raises ValueError; both before E is written
DipolarEnergy_update_single_raises(self, l, s) ==
    /\ self.kernel_unitcell_indices[cell_of(l, s)] >= 0
    /\ (IndexError(l, s) \/ ~broadcastable(l, s))

DipolarEnergy_update_single_any(self, l, s) ==
    LET n == self.kernel_unitcell_indices[cell_of(l, s)]
    IN  IF n < 0 \/ DipolarEnergy_update_single_raises(self, l, s) THEN self
        ELSE [self EXCEPT
                !.E = dipolar_single_grid_any(self.E, self.prefactor,
                                              self.kernel_unitcell[n+1], l, s),
                !.E_perp = IF l.USE_PERP_ENERGY
                           THEN dipolar_single_grid_any(self.E_perp, self.prefactor,
                                                        self.kernel_perpother_unitcell[n+1], l, s)
                           ELSE self.E_perp]

\* the indices a caller must never pass
UnoccupiedSites(l) == Idx(l.ny, l.nx) \ Occupied(l)

OutsideSites(l) == {<<-1, 0>>, <<0, -1>>, <<l.ny, 0>>, <<0, l.nx>>, <<-1, -1>>}

Targets == {"zeeman", "dipolar", "exchange"}

\* update_single of one contribution for an index that must not be passed;
\* mm.m is left as it is
CallSingle(target, s) ==
    /\ nsteps < MaxSteps
    /\ zeeman' = IF target = "zeeman" THEN ZeemanEnergy_update_single_any(zeeman, mm, s)
                  ELSE zeeman
    /\ dipolar' = IF target = "dipolar" THEN DipolarEnergy_update_single_any(dipolar, mm, s)
                   ELSE dipolar
    /\ exchange' = IF target = "exchange" THEN ExchangeEnergy_update(exchange, mm)
                    ELSE exchange
    /\ last' = [op |-> "update_single", sites |-> {s}, args |-> <<target>>,
                raised |-> CASE target = "zeeman" ->
                                  ZeemanEnergy_update_single_raises(zeeman, mm, s)
                             [] target = "dipolar" ->
                                  DipolarEnergy_update_single_raises(dipolar, mm, s)
                             [] OTHER -> FALSE]
    /\ nsteps' = nsteps + 1
    /\ UNCHANGED utilvars
    /\ UNCHANGED mm

\* the batches with exactly one index that must not be passed: alone, or
\* with one magnet that the caller has switched; the dipolar contribution
\* is called with indices inside the lattice only
ValidSample(l) == Candidates(l) \cap {<<0, 1>>}

BadBatches(l, target) ==
    LET bad == IF target = "dipolar" THEN UnoccupiedSites(l)
               ELSE UnoccupiedSites(l) \cup OutsideSites(l)
    IN  {{b} : b \in bad} \cup {{b, v} : b \in bad, v \in ValidSample(l)}

CallMultiple(target, S) ==
    /\ nsteps < MaxSteps
    /\ mm' = switched(mm, S \cap Occupied(mm))
    /\ zeeman' = IF target = "zeeman" THEN ZeemanEnergy_update_multiple_any(zeeman, mm', S)
                  ELSE zeeman
    /\ dipolar' = IF target = "dipolar" THEN DipolarEnergy_update_multiple(dipolar, mm', S)
                   ELSE dipolar
    /\ exchange' = IF target = "exchange" THEN ExchangeEnergy_update(exchange, mm')
                    ELSE exchange
    /\ last' = [op |-> "update_multiple", sites |-> S, args |-> <<target>>,
                raised |-> target = "zeeman"
                           /\ ZeemanEnergy_update_multiple_raises(zeeman, mm', S)]
    /\ nsteps' = nsteps + 1
    /\ UNCHANGED utilvars

ContractConfigs ==
    { Config("IP_Square", 3, 3, FALSE, TRUE, "afm", 1, "varied", 50, 0),
      Config("IP_Square", 2, 4, TRUE, TRUE, "uniform", 0, "unit", 0, 0),
      Config("OOP_Square", 2, 3, FALSE, TRUE, "afm", 0, "varied", 50, 0) }

InitContract ==
    /\ \E c \in ContractConfigs :
         /\ mm = Magnets(c)
         /\ zeeman = ZeemanEnergy_new(mm, 1, 0)
         /\ dipolar = DipolarEnergy_new(mm, 1, -3)
         /\ exchange = ExchangeEnergy_new(mm, 1)
    /\ last = [op |-> "initialize", sites |-> {}, args |-> <<>>, raised |-> FALSE]
    /\ nsteps = 0
    /\ NoUtils

NextContract ==
    \/ nsteps < MaxSteps /\ \E s \in Candidates(mm) : SwitchSingle(s)
    \/ nsteps < MaxSteps
         /\ \E target \in Targets, s \in UnoccupiedSites(mm) \cup OutsideSites(mm) :
               CallSingle(target, s)
    \/ nsteps < MaxSteps
         /\ \E target \in Targets : \E S \in BadBatches(mm, target) :
               CallMultiple(target, S)

SpecContract == InitContract /\ [][NextContract]_vars

\* the call of `last` was made on the dipolar contribution with an index
\* inside the lattice whose sub-cell position has no kernel
UnoccupiedDispatch(self, l, call) ==
    /\ call.op \in {"update_single", "update_multiple"}
    /\ call.args = <<"dipolar">>
    /\ \E s \in call.sites :
          /\ s \in Idx(l.ny, l.nx)
          /\ self.kernel_unitcell_indices[cell_of(l, s)] < 0

\* C13: update_single and update_multiple of the dipolar contribution for a
\* site whose sub-cell position is unoccupied raise an error and leave E and
\* E_perp as they were
C13_UnoccupiedFailsLoudly ==
    [][UnoccupiedDispatch(dipolar, mm, last')
          => /\ last'.raised
             /\ dipolar'.E = dipolar.E
             /\ dipolar'.E_perp = dipolar.E_perp]_vars

\* the call of `last` was made with an index outside the lattice
OutsideDispatch(l, call) ==
    /\ call.op \in {"update_single", "update_multiple"}
    /\ call.args # <<>>
    /\ \E s \in call.sites : s \notin Idx(l.ny, l.nx)

\* C14: update_single and update_multiple of every contribution for an index
\* outside the lattice raise an error and leave E and E_perp as they were
C14_OutsideFailsLoudly ==
    [][OutsideDispatch(mm, last')
          => /\ last'.raised
             /\ zeeman'.E = zeeman.E /\ zeeman'.E_perp = zeeman.E_perp
             /\ dipolar'.E = dipolar.E /\ dipolar'.E_perp = dipolar.E_perp
             /\ exchange'.E = exchange.E /\ exchange'.E_perp = exchange.E_perp]_vars

(***************************************************************************)
(* The prefactor of the dipolar contribution: the setter and               *)
(* get_NN_interaction / set_NN_interaction.  An energy given to or         *)
(* returned by the two is a fraction of integers in the unit of E.         *)
(***************************************************************************)
Abs(a) == IF a < 0 THEN -a ELSE a

\* the largest element of a finite non-empty set of integers
MaxOf(S) == CHOOSE m \in S : \A x \in S : x <= m

\* mm.moment_avg: the mean of mm.moment
moment_avg(l) == Fraction(Sum2(l.moment, l.ny, l.nx), l.ny * l.nx)

\* largest: the greatest |kernel*NN| over the window of the stencil around
\* the middle of every kernel, and 0 if none is greater
largest_NN(self, l) ==
    MaxOf({0} \cup
          { Abs(self.kernel_unitcell[n][<<l.ny-1-1+i[1], l.nx-1-1+i[2]>>]
                * nearest_neighbors_of(l.geometry)[i]) :
              n \in 1..Len(self.kernel_unitcell), i \in Idx(3, 3) })

\* get_NN_interaction: largest*self.prefactor*(self.mm.moment_avg**2)
DipolarEnergy_get_NN_interaction(self, l) ==
    Fraction(largest_NN(self, l) * self.prefactor * moment_avg(l).num * moment_avg(l).num,
             moment_avg(l).den * moment_avg(l).den)

\* the quotient a/b of two fractions, b not zero
Quotient(a, b) == Fraction(a.num * b.den, a.den * b.num)

\* a fraction that is the integer n
FractionIs(f, n) == f.num = n * f.den

\* two fractions of the same value
SameFraction(a, b) == a.num * b.den = b.num * a.den

\* the prefactor set_NN_interaction(value) assigns
NN_prefactor(self, l, value) == Quotient(value, DipolarEnergy_get_NN_interaction(self, l))

\* set_NN_interaction: self.prefactor = value/self.get_NN_interaction(); the
\* quotient is a numpy scalar
DipolarEnergy_set_NN_interaction(self, l, value) ==
    DipolarEnergy_set_prefactor(self,
        NN_prefactor(self, l, value).num \div NN_prefactor(self, l, value).den, TRUE)

\* the energies tried: multiples of get_NN_interaction() at prefactor 1
NNFactors == {2, 4}

NNValues(self, l) ==
    { Fraction(w * largest_NN(self, l) * moment_avg(l).num * moment_avg(l).num,
               moment_avg(l).den * moment_avg(l).den) : w \in NNFactors }

\* set_NN_interaction(value) with a non-zero prefactor and a value for which
\* the new prefactor is an integer
SetNNInteraction(value) ==
    /\ nsteps < MaxSteps
    /\ Present(dipolar)
    /\ dipolar.prefactor # 0 /\ largest_NN(dipolar, mm) # 0
    /\ NN_prefactor(dipolar, mm, value).num % NN_prefactor(dipolar, mm, value).den = 0
    /\ dipolar' = DipolarEnergy_set_NN_interaction(dipolar, mm, value)
    /\ last' = [op |-> "set_NN_interaction", sites |-> {}, args |-> <<value>>,
                raised |-> FALSE]
    /\ nsteps' = nsteps + 1
    /\ UNCHANGED utilvars
    /\ UNCHANGED <<mm, zeeman, exchange>>

PrefactorConfigs ==
    { Config("OOP_Square", 2, 3, pbc, pbc, "afm", 0, "varied", 50, 0) : pbc \in BOOLEAN }
    \cup { Config("IP_Square", 3, 3, FALSE, TRUE, "afm", 1, "varied", 50, 0),
           Config("IP_Square", 2, 4, TRUE, TRUE, "uniform", 0, "unit", 50, 0) }

InitPrefactor ==
    /\ \E c \in PrefactorConfigs :
         /\ mm = Magnets(c)
         /\ dipolar = DipolarEnergy_new(mm, 1, -3)
    /\ zeeman = Absent
    /\ exchange = Absent
    /\ last = [op |-> "initialize", sites |-> {}, args |-> <<>>, raised |-> FALSE]
    /\ nsteps = 0
    /\ NoUtils

NextPrefactor ==
    \/ nsteps < MaxSteps /\ \E s \in Candidates(mm) : SwitchSingle(s)
    \/ nsteps < MaxSteps /\ \E S \in Batches(mm) : SwitchMultiple(S)
    \/ Update
    \/ \E value \in PrefactorValues, numpy \in BOOLEAN : SetPrefactor(value, numpy)
    \/ nsteps < MaxSteps /\ \E value \in NNValues(dipolar, mm) : SetNNInteraction(value)

SpecPrefactor == InitPrefactor /\ [][NextPrefactor]_vars

\* E and E_perp are finite and are what update() computes with the current
\* prefactor from the current spin configuration (update() computes E_perp
\* when USE_PERP_ENERGY is set)
DipolarExact(self, l) ==
    /\ self.nonfinite = {}
    /\ self.E = DipolarEnergy_update(self, l).E
    /\ self.E_perp = DipolarEnergy_update(self, l).E_perp

\* C16: an assignment to the prefactor made in a state where E and E_perp are
\* those of update() leaves them those of update() with the new prefactor,
\* with the kernels as they were, whatever the prefactor was, 0 included
C16_PrefactorRescaleExact ==
    [][(last'.op = "set_prefactor" /\ DipolarExact(dipolar, mm))
          => /\ DipolarExact(dipolar', mm')
             /\ dipolar'.kernel_unitcell = dipolar.kernel_unitcell
             /\ dipolar'.kernel_perpself_unitcell = dipolar.kernel_perpself_unitcell
             /\ dipolar'.kernel_perpother_unitcell = dipolar.kernel_perpother_unitcell]_vars

\* C17: right after set_NN_interaction(v), get_NN_interaction() returns v, and
\* a second set_NN_interaction(v) would assign the prefactor already stored
C17_SetNNInteraction ==
    [][last'.op = "set_NN_interaction"
          => /\ SameFraction(DipolarEnergy_get_NN_interaction(dipolar', mm'), last'.args[1])
             /\ FractionIs(NN_prefactor(dipolar', mm', last'.args[1]),
                           dipolar'.prefactor)]_vars

(***************************************************************************)
(* Energy.initialize(mm) called on a contribution that exists: self.mm is  *)
(* bound to the lattice, E and E_perp are allocated anew, _initialize()    *)
(* and update() follow.  Every other attribute stays what it was.          *)
(***************************************************************************)
\* initialize that allocates E only and keeps the E_perp it holds
DipolarEnergy_initialize_mm_keeps(self, l) ==
    DipolarEnergy_update(
        [self EXCEPT
           !.E = Zeros(l.ny, l.nx),
           !.kernel_unitcell_indices = DipolarEnergy_initialize(l, self.decay_exponent).kernel_unitcell_indices,
           !.kernel_unitcell = DipolarEnergy_initialize(l, self.decay_exponent).kernel_unitcell,
           !.kernel_perpself_unitcell = DipolarEnergy_initialize(l, self.decay_exponent).kernel_perpself_unitcell,
           !.kernel_perpother_unitcell = DipolarEnergy_initialize(l, self.decay_exponent).kernel_perpother_unitcell],
        l)

DipolarEnergy_initialize_mm(self, l) ==
    DipolarEnergy_update(
        [self EXCEPT
           !.E = Zeros(l.ny, l.nx),
           !.E_perp = Zeros(l.ny, l.nx),
           !.nonfinite = {},
           !.kernel_unitcell_indices = DipolarEnergy_initialize(l, self.decay_exponent).kernel_unitcell_indices,
           !.kernel_unitcell = DipolarEnergy_initialize(l, self.decay_exponent).kernel_unitcell,
           !.kernel_perpself_unitcell = DipolarEnergy_initialize(l, self.decay_exponent).kernel_perpself_unitcell,
           !.kernel_perpother_unitcell = DipolarEnergy_initialize(l, self.decay_exponent).kernel_perpother_unitcell],
        l)

\* ZeemanEnergy._initialize is set_field(self._magnitude, self._angle)
ZeemanEnergy_initialize_mm(self, l) ==
    ZeemanEnergy_set_field(
        [self EXCEPT !.E = Zeros(l.ny, l.nx), !.E_perp = Zeros(l.ny, l.nx)],
        l, <<self._magnitude>>, <<self._angle>>)

\* ExchangeEnergy._initialize takes the stencil of the lattice
ExchangeEnergy_initialize_mm(self, l) ==
    ExchangeEnergy_update(
        [self EXCEPT !.E = Zeros(l.ny, l.nx), !.E_perp = Zeros(l.ny, l.nx),
                     !.local_interaction = nearest_neighbors_of(l.geometry)],
        l)

(***************************************************************************)
(* Every operation of the three contributions on one lattice.              *)
(***************************************************************************)
\* Energy.initialize(mm) of every contribution, with the parameters it holds
Initialize ==
    /\ nsteps < MaxSteps
    /\ Present(zeeman) /\ Present(dipolar) /\ Present(exchange)
    /\ zeeman' = ZeemanEnergy_initialize_mm(zeeman, mm)
    /\ dipolar' = DipolarEnergy_initialize_mm(dipolar, mm)
    /\ exchange' = ExchangeEnergy_initialize_mm(exchange, mm)
    /\ last' = [op |-> "initialize", sites |-> {}, args |-> <<>>, raised |-> FALSE]
    /\ nsteps' = nsteps + 1
    /\ UNCHANGED utilvars
    /\ UNCHANGED mm

\* energy_switch written as self.E *= -2 on the grid itself
EnergySwitch_inplace(s) ==
    /\ nsteps < MaxSteps
    /\ Present(zeeman) /\ Present(dipolar) /\ Present(exchange)
    /\ zeeman' = [zeeman EXCEPT !.E = [i \in DOMAIN zeeman.E |-> -2 * zeeman.E[i]]]
    /\ dipolar' = [dipolar EXCEPT !.E = [i \in DOMAIN dipolar.E |-> -2 * dipolar.E[i]]]
    /\ exchange' = [exchange EXCEPT !.E = [i \in DOMAIN exchange.E |-> -2 * exchange.E[i]]]
    /\ last' = [op |-> "energy_switch", sites |-> {s},
                args |-> <<zeeman'.E[s], dipolar'.E[s], exchange'.E[s]>>, raised |-> FALSE]
    /\ nsteps' = nsteps + 1
    /\ UNCHANGED utilvars
    /\ UNCHANGED mm

\* energy_switch of every contribution for one magnet: the values returned
\* are kept in last.args
EnergySwitch(s) ==
    /\ nsteps < MaxSteps
    /\ Present(zeeman) /\ Present(dipolar) /\ Present(exchange)
    /\ last' = [op |-> "energy_switch", sites |-> {s},
                args |-> <<energy_switch(zeeman, s), energy_switch(dipolar, s),
                           energy_switch(exchange, s)>>,
                raised |-> FALSE]
    /\ nsteps' = nsteps + 1
    /\ UNCHANGED utilvars
    /\ UNCHANGED <<mm, zeeman, dipolar, exchange>>

\* E_tot of every contribution: the values returned are kept in last.args
ETot ==
    /\ nsteps < MaxSteps
    /\ Present(zeeman) /\ Present(dipolar) /\ Present(exchange)
    /\ last' = [op |-> "E_tot", sites |-> {},
                args |-> <<ZeemanEnergy_E_tot(zeeman, mm), DipolarEnergy_E_tot(dipolar, mm),
                           ExchangeEnergy_E_tot(exchange, mm)>>,
                raised |-> FALSE]
    /\ nsteps' = nsteps + 1
    /\ UNCHANGED utilvars
    /\ UNCHANGED <<mm, zeeman, dipolar, exchange>>

FrameConfigs ==
    { Config("OOP_Square", 2, 3, TRUE, TRUE, "afm", 0, "varied", 50, 0),
      Config("IP_Square", 3, 3, FALSE, TRUE, "afm", 1, "varied", 0, 0) }

InitFrame ==
    /\ \E c \in FrameConfigs :
         /\ mm = Magnets(c)
         /\ zeeman = ZeemanEnergy_new(mm, 1, 0)
         /\ dipolar = DipolarEnergy_new(mm, 1, -3)
         /\ exchange = ExchangeEnergy_new(mm, 1)
    /\ last = [op |-> "initialize", sites |-> {}, args |-> <<>>, raised |-> FALSE]
    /\ nsteps = 0
    /\ NoUtils

NextFrame ==
    \/ nsteps < MaxSteps /\ \E s \in Candidates(mm) : SwitchSingle(s)
    \/ nsteps < MaxSteps /\ \E S \in Batches(mm) : S \subseteq SampleSites /\ SwitchMultiple(S)
    \/ Update
    \/ Initialize
    \/ \E f \in FieldChanges : SetField(f[1], f[2])
    \/ \E value \in PrefactorValues, numpy \in BOOLEAN : SetPrefactor(value, numpy)
    \/ nsteps < MaxSteps /\ \E value \in NNValues(dipolar, mm) : SetNNInteraction(value)
    \/ nsteps < MaxSteps /\ \E s \in Candidates(mm) \cap SampleSites : EnergySwitch(s)
    \/ ETot

SpecFrame == InitFrame /\ [][NextFrame]_vars

\* the operations that are called on a lattice nobody has touched
UnswitchedOps ==
    {"initialize", "update", "energy_switch", "E_tot", "set_field", "set_prefactor",
     "set_NN_interaction"}

\* C15: no operation of a contribution writes to the lattice: mm is after the
\* call what it was before (for update_single and update_multiple, what the
\* scheduler made of it by negating mm.m at the switched sites), and
\* energy_switch leaves E and E_perp of every contribution as they were
C15_NoLatticeWrites ==
    [][/\ last'.op \in UnswitchedOps => mm' = mm
       /\ last'.op \in {"update_single", "update_multiple"}
             => mm' = switched(mm, last'.sites)
       /\ last'.op = "energy_switch"
             => /\ zeeman'.E = zeeman.E /\ zeeman'.E_perp = zeeman.E_perp
                /\ dipolar'.E = dipolar.E /\ dipolar'.E_perp = dipolar.E_perp
                /\ exchange'.E = exchange.E /\ exchange'.E_perp = exchange.E_perp]_vars

\* C15 case: energy_switch returned a non-zero change for a magnet after an
\* operation that rewrote the grids
C15_Witness ==
    /\ last.op = "energy_switch" /\ nsteps = 2
    /\ last.args[1] # 0 /\ last.args[2] # 0 /\ last.args[3] # 0
    /\ \E s \in last.sites : last.args[2] = -2 * dipolar.E[s]

(***************************************************************************)
(* Lattices with unoccupied sites, in-plane and out-of-plane.              *)
(***************************************************************************)
\* an out-of-plane lattice whose occupation mask leaves the sites with x+y
\* even empty, with a sub-cell of 2x2
OOP_Vacancies(c) ==
    [Magnets(c) EXCEPT !.unitcell = [y |-> 2, x |-> 2],
                       !.occupation = occupation_of("IP_Square", c.ny, c.nx),
                       !.m = set_m("IP_Square", c.ny, c.nx, c.pattern, c.vacant)]

VacancyLattices ==
    { Magnets(Config("IP_Square", 3, 3, FALSE, TRUE, "afm", 1, "varied", c, 0)) :
        c \in Cutoffs }
    \cup { Magnets(Config("IP_Square", 2, 4, TRUE, TRUE, "uniform", 0, "unit", 50, 0)),
           OOP_Vacancies(Config("OOP_Square", 2, 4, FALSE, TRUE, "uniform", 1, "varied", 50, 0)) }

InitVacancy ==
    /\ mm \in VacancyLattices
    /\ zeeman = ZeemanEnergy_new(mm, 1, 0)
    /\ dipolar = DipolarEnergy_new(mm, 1, -3)
    /\ exchange = ExchangeEnergy_new(mm, 1)
    /\ last = [op |-> "initialize", sites |-> {}, args |-> <<>>, raised |-> FALSE]
    /\ nsteps = 0
    /\ NoUtils

NextVacancy ==
    \/ nsteps < MaxSteps /\ \E s \in Candidates(mm) : SwitchSingle(s)
    \/ nsteps < MaxSteps /\ \E S \in Batches(mm) : SwitchMultiple(S)
    \/ Update
    \/ \E f \in FieldChanges : SetField(f[1], f[2])

SpecVacancy == InitVacancy /\ [][NextVacancy]_vars

\* the values an unoccupied site may hold
VacantValues == {-1, 0, 1}

\* the lattice with mm.m set to v at every unoccupied site
revalued(l, v) ==
    [l EXCEPT !.m = [i \in Idx(l.ny, l.nx) |-> IF l.occupation[i] = 0 THEN v ELSE l.m[i]]]

\* the state of a contribution after the operation `call` on the lattice l
ZeemanAfter(self, l, call) ==
    CASE call.op = "update_single" ->
             ZeemanEnergy_update_single(self, l, CHOOSE s \in call.sites : TRUE)
      [] call.op = "update_multiple" -> ZeemanEnergy_update_multiple(self, l, call.sites)
      [] call.op = "set_field" -> ZeemanEnergy_set_field(self, l, call.args[1], call.args[2])
      [] OTHER -> ZeemanEnergy_update(self, l)

DipolarAfter(self, l, call) ==
    CASE call.op = "update_single" ->
             DipolarEnergy_update_single(self, l, CHOOSE s \in call.sites : TRUE)
      [] call.op = "update_multiple" -> DipolarEnergy_update_multiple(self, l, call.sites)
      [] call.op = "set_field" -> self
      [] OTHER -> DipolarEnergy_update(self, l)

ExchangeAfter(self, l, call) ==
    IF call.op = "set_field" THEN self ELSE ExchangeEnergy_update(self, l)

\* the grids and totals of two states of a contribution are the same
SameEnergies(a, b, l) ==
    /\ a.E = b.E
    /\ a.E_perp = b.E_perp
    /\ Sum2(a.E, l.ny, l.nx) = Sum2(b.E, l.ny, l.nx)

\* C18: the value of mm.m at an unoccupied site is not used: update() and
\* every incremental update give the same E, E_perp and E_tot whatever value
\* the unoccupied sites hold, for the three contributions
C18_VacantValueUnused ==
    /\ [](\A v \in VacantValues :
            /\ SameEnergies(ZeemanEnergy_update(zeeman, mm),
                            ZeemanEnergy_update(zeeman, revalued(mm, v)), mm)
            /\ SameEnergies(DipolarEnergy_update(dipolar, mm),
                            DipolarEnergy_update(dipolar, revalued(mm, v)), mm)
            /\ SameEnergies(ExchangeEnergy_update(exchange, mm),
                            ExchangeEnergy_update(exchange, revalued(mm, v)), mm))
    /\ [][\A v \in VacantValues :
            /\ SameEnergies(zeeman', ZeemanAfter(zeeman, revalued(mm', v), last'), mm)
            /\ SameEnergies(dipolar', DipolarAfter(dipolar, revalued(mm', v), last'), mm)
            /\ SameEnergies(exchange', ExchangeAfter(exchange, revalued(mm', v), last'), mm)]_vars

(***************************************************************************)
(* utils.mirror4 called on its own, on every small array.                  *)
(***************************************************************************)
energyvars == <<mm, zeeman, dipolar, exchange, last, nsteps>>

NoEnergies ==
    /\ mm = <<>> /\ zeeman = <<>> /\ dipolar = <<>> /\ exchange = <<>>
    /\ last = <<>> /\ nsteps = 0

\* the largest number of rows and of columns of arr
MaxSide == 2

\* the values of the elements of arr
ArrValues == {-1, 0, 1}

InitMirror ==
    /\ \E ny \in 1..MaxSide, nx \in 1..MaxSide :
         \E arr \in [Idx(ny, nx) -> ArrValues], negativex \in BOOLEAN, negativey \in BOOLEAN :
             mirror = [arr |-> arr, ny |-> ny, nx |-> nx, negativex |-> negativex,
                       negativey |-> negativey, returned |-> FALSE, arr4 |-> <<>>]
    /\ sampler = <<>>
    /\ NoEnergies

Mirror4 ==
    /\ ~mirror.returned
    /\ mirror' = [mirror EXCEPT
                    !.returned = TRUE,
                    !.arr4 = mirror4(mirror.arr, mirror.ny, mirror.nx,
                                     mirror.negativex, mirror.negativey)]
    /\ UNCHANGED <<sampler, energyvars>>

NextMirror == Mirror4

SpecMirror == InitMirror /\ [][NextMirror]_vars

\* C19: for every 2D input of shape (a, b) and every combination of the flags,
\* the result of mirror4 has shape (2a-1, 2b-1) and its middle element
\* result[a-1, b-1] equals arr[0,0]
C19_MirrorCentre ==
    mirror.returned =>
        /\ DOMAIN mirror.arr4 = Idx(2*mirror.ny - 1, 2*mirror.nx - 1)
        /\ mirror.arr4[<<mirror.ny - 1, mirror.nx - 1>>] = mirror.arr[<<0, 0>>]

(***************************************************************************)
(* wip_poisson.SequentialPoissonDiskSampling.  Positions are integers;     *)
(* radius is an integer here, so that cellSize = radius/sqrt(2) is         *)
(* irrational and int(x/cellSize) is found exactly from squares.  Angles   *)
(* are 45 degrees plus a number of quarter turns: the values of rng() are  *)
(* drawn so that every angle of the source stays of this form, where       *)
(* |cos| = |sin| = sqrt(2)/2.  A point is <<x, y, angle, tries>>.          *)
(***************************************************************************)
neighbourhood ==
    << <<0, 0>>,   <<0, -1>>,  <<-1, 0>>,
       <<1, 0>>,   <<0, 1>>,   <<-1, -1>>,
       <<1, -1>>,  <<-1, 1>>,  <<1, 1>>,
       <<0, -2>>,  <<-2, 0>>,  <<2, 0>>,
       <<0, 2>>,   <<-1, -2>>, <<1, -2>>,
       <<-2, -1>>, <<2, -1>>,  <<-2, 1>>,
       <<2, 1>>,   <<-1, 2>>,  <<1, 2>> >>

\* int(x/cellSize) with cellSize = radius/sqrt(2): the largest k with
\* k*radius <= x*sqrt(2)
grid_cell(x, radius) ==
    CHOOSE k \in 0..(2*x) :
        /\ k*k*radius*radius <= 2*x*x
        /\ (k+1)*(k+1)*radius*radius > 2*x*x

\* math.ceil(width/cellSize); width/cellSize is never a whole number
gridShape_of(width, radius) == grid_cell(width, radius) + 1

\* math.ceil(angleIncrementOnSuccess/angleIncrement) with
\* angleIncrementOnSuccess = pi/3 + epsilon and angleIncrement = 2*pi/maxTries
triesIncrementOnSuccess(maxTries) == (maxTries \div 6) + 1

SequentialPoissonDiskSampling_new(width, height, radius, tries) ==
    [width |-> width, height |-> height, radius |-> radius,
     maxTries |-> IF tries > 3 THEN tries ELSE 3,
     squaredRadius |-> radius*radius,
     processList |-> <<>>, samplePoints |-> <<>>,
     gridShape |-> <<gridShape_of(width, radius), gridShape_of(height, radius)>>,
     grid |-> [g \in (0..(gridShape_of(width, radius) - 1))
                    \X (0..(gridShape_of(height, radius) - 1)) |-> 0]]

directAddPoint(self, point) ==
    [self EXCEPT
       !.processList = Append(self.processList, point),
       !.samplePoints = Append(self.samplePoints, <<point[1], point[2]>>),
       !.grid = [self.grid EXCEPT
                   ![<<grid_cell(point[1], self.radius), grid_cell(point[2], self.radius)>>] =
                       Len(self.samplePoints) + 1]]

\* the distance along one dimension, folded as in lines 111-112
dist_1d(a, b, box) ==
    LET d == IF a >= b THEN a - b ELSE b - a
    IN  IF 2*d > box THEN d - box ELSE d

inNeighbourhood(self, point) ==
    LET pointpos == <<grid_cell(point[1], self.radius), grid_cell(point[2], self.radius)>>
    IN  \E neighbourIndex \in 1..Len(neighbourhood) :
            LET gridIndex == <<(pointpos[1] + neighbourhood[neighbourIndex][1]) % self.gridShape[1],
                               (pointpos[2] + neighbourhood[neighbourIndex][2]) % self.gridShape[2]>>
                other == self.samplePoints[self.grid[gridIndex]]
            IN  /\ self.grid[gridIndex] # 0
                /\ dist_1d(point[1], other[1], self.width) * dist_1d(point[1], other[1], self.width)
                     + dist_1d(point[2], other[2], self.height) * dist_1d(point[2], other[2], self.height)
                   < self.squaredRadius

\* cos and sin of 45 degrees plus q quarter turns, as a sign: both are
\* sqrt(2)/2 in size
cos_sign(q) == IF q % 4 \in {0, 3} THEN 1 ELSE -1
sin_sign(q) == IF q % 4 \in {0, 1} THEN 1 ELSE -1

\* 1 + rng() in quarters: 1 and 1.5
Quarters == {4, 6}

\* the whole part of (sqrt(2)/2)*radiusPlusEpsilon*(n/4), which is never whole
reach(radius, n) ==
    CHOOSE k \in 0..(radius*n) :
        /\ 32*k*k <= radius*radius*n*n
        /\ 32*(k+1)*(k+1) > radius*radius*n*n

\* int(c + sign*(sqrt(2)/2)*radiusPlusEpsilon*(n/4)) % box: int() rounds
\* towards zero, % gives a result in 0..box-1
stepped(c, sign, radius, n, box) ==
    LET k == reach(radius, n)
    IN  IF sign = 1 THEN (c + k) % box
        ELSE IF c > k THEN (c - k - 1) % box
        ELSE (c - k) % box

\* the processList after lines 148-149
popped(processList, index) ==
    LET r == processList[Len(processList)]
        rest == SubSeq(processList, 1, Len(processList) - 1)
    IN  IF index <= Len(rest) THEN [rest EXCEPT ![index] = r] ELSE rest

RECURSIVE next_results(_), next_tries(_, _, _, _)

\* next() that returns None when the tries of the point are exhausted,
\* leaving the point in processList
next_tries_keeps(self, index, currentAngle, tries) ==
    LET currentPoint == self.processList[index]
        newPoints == { <<stepped(currentPoint[1], cos_sign(currentAngle), self.radius, n1, self.width),
                         stepped(currentPoint[2], sin_sign(currentAngle), self.radius, n2, self.height),
                         currentAngle % 4, 0>> : n1 \in Quarters, n2 \in Quarters }
        free == { newPoint \in newPoints : ~inNeighbourhood(self, newPoint) }
    IN  IF tries >= self.maxTries
        THEN {self}
        ELSE { directAddPoint(
                 [self EXCEPT !.processList[index] =
                     <<currentPoint[1], currentPoint[2], (currentAngle + 1) % 4,
                       tries + triesIncrementOnSuccess(self.maxTries)>>],
                 newPoint) : newPoint \in free }
             \cup (IF free # newPoints
                   THEN next_tries(self, index, currentAngle + 1, tries + 1)
                   ELSE {})

\* the samplers next() can leave behind when it processes the point at index
\* (counted from 1) at currentAngle, from try number tries on
next_tries(self, index, currentAngle, tries) ==
    LET currentPoint == self.processList[index]
        newPoints == { <<stepped(currentPoint[1], cos_sign(currentAngle), self.radius, n1, self.width),
                         stepped(currentPoint[2], sin_sign(currentAngle), self.radius, n2, self.height),
                         currentAngle % 4, 0>> : n1 \in Quarters, n2 \in Quarters }
        free == { newPoint \in newPoints : ~inNeighbourhood(self, newPoint) }
    IN  IF tries >= self.maxTries
        THEN next_results([self EXCEPT !.processList = popped(self.processList, index)])
        ELSE { directAddPoint(
                 [self EXCEPT !.processList[index] =
                     <<currentPoint[1], currentPoint[2], (currentAngle + 1) % 4,
                       tries + triesIncrementOnSuccess(self.maxTries)>>],
                 newPoint) : newPoint \in free }
             \cup (IF free # newPoints
                   THEN next_tries(self, index, currentAngle + 1, tries + 1)
                   ELSE {})

\* the samplers one call of next() can leave behind
next_results(self) ==
    IF Len(self.processList) = 0 THEN {self}
    ELSE UNION { UNION { next_tries(self, index, self.processList[index][3] + turn,
                                    self.processList[index][4]) :
                         turn \in IF self.processList[index][4] = 0 THEN {3, 0, 1} ELSE {0} } :
                 index \in 1..Len(self.processList) }

\* width, height, radius of the samplers
Boxes == { <<10, 10, 3>>, <<7, 10, 3>>, <<9, 6, 2>> }

\* tries argument of the samplers: angleIncrement is a quarter turn
Tries == 4

\* the most points a sampler holds
MaxPoints == 3

InitPoisson ==
    /\ \E b \in Boxes :
         sampler = SequentialPoissonDiskSampling_new(b[1], b[2], b[3], Tries)
    /\ mirror = <<>>
    /\ NoEnergies

\* fill() on a fresh sampler starts with addRandomPoint(); rng() is 0 or 0.5
\* for the position
AddRandomPoint ==
    /\ Len(sampler.samplePoints) = 0
    /\ \E x \in {0, sampler.width \div 2}, y \in {0, sampler.height \div 2}, q \in 0..3 :
         sampler' = directAddPoint(sampler, <<x, y, q, 0>>)
    /\ UNCHANGED <<mirror, energyvars>>

SamplerNext ==
    /\ Len(sampler.samplePoints) \in 1..(MaxPoints - 1)
    /\ sampler' \in next_results(sampler)
    /\ UNCHANGED <<mirror, energyvars>>

NextPoisson ==
    \/ AddRandomPoint
    \/ SamplerNext

SpecPoisson == InitPoisson /\ [][NextPoisson]_vars

\* the squared minimum-image distance of two points
periodic_dist_sq(a, b, width, height) ==
    LET dx == (a[1] - b[1]) % width
        dy == (a[2] - b[2]) % height
        mx == IF 2*dx > width THEN width - dx ELSE dx
        my == IF 2*dy > height THEN height - dy ELSE dy
    IN  mx*mx + my*my

\* C20: after fill() on a fresh sampler and after every successful next(),
\* any two distinct entries of samplePoints are at periodic distance at least
\* radius, for every width, height and radius
C20_MinimumDistance ==
    \A i \in 1..Len(sampler.samplePoints), j \in 1..Len(sampler.samplePoints) :
        i # j =>
            periodic_dist_sq(sampler.samplePoints[i], sampler.samplePoints[j],
                             sampler.width, sampler.height) >= sampler.squaredRadius

(***************************************************************************)
(* ExchangeEnergy on its own, on the three nearest-neighbour stencils:     *)
(* OOP_Square (plus), IP_Square (diagonal) and IP_Kagome (3x5); the        *)
(* periodic lattice of one row is a chain.                                 *)
(***************************************************************************)
\* IP_Kagome: occupation, angles (90, -30 and 30 degrees, as multiples of
\* <<sqrt(3)/2, 1/2>>) and the 'afm' pattern; a sub-cell of 4x4
IP_Kagome(c) ==
    LET occ == [i \in Idx(c.ny, c.nx) |->
                  IF (i[2] + i[1]) % 4 = 1 \/ (i[2] - i[1]) % 4 = 3 THEN 1 ELSE 0]
        ang == [i \in Idx(c.ny, c.nx) |->
                  IF (i[2] + i[1]) % 4 = 3 /\ i[2] % 2 = 1 THEN <<1, 1>>
                  ELSE IF (i[2] - i[1]) % 4 = 1 /\ i[2] % 2 = 1 THEN <<1, -1>>
                  ELSE <<0, 2>>]
    IN  [Magnets(c) EXCEPT
           !.geometry = "IP_Kagome",
           !.in_plane = TRUE,
           !.unitcell = [y |-> 4, x |-> 4],
           !.occupation = occ,
           !.orientation = [i \in Idx(c.ny, c.nx) |-> <<ang[i][1]*occ[i], ang[i][2]*occ[i]>>],
           !.m = [i \in Idx(c.ny, c.nx) |->
                    IF occ[i] = 0 THEN c.vacant
                    ELSE IF c.pattern = "afm" /\ (i[2] + i[1]) % 4 = 3 THEN -1 ELSE 1]]

ExchangeLattices ==
    { Magnets(Config("OOP_Square", 2, 3, pbc, perp, "afm", 0, "unit", 50, 0)) :
        pbc \in BOOLEAN, perp \in BOOLEAN }
    \cup { Magnets(Config("OOP_Square", 1, 3, TRUE, FALSE, "afm", 0, "unit", 50, 0)),
           Magnets(Config("IP_Square", 3, 3, FALSE, TRUE, "uniform", 1, "unit", 50, 0)),
           Magnets(Config("IP_Square", 2, 4, TRUE, TRUE, "afm", 0, "unit", 50, 0)),
           IP_Kagome(Config("IP_Kagome", 4, 4, TRUE, TRUE, "afm", 0, "unit", 50, 0)),
           IP_Kagome(Config("IP_Kagome", 3, 5, FALSE, TRUE, "uniform", 1, "unit", 50, 0)) }

InitExchange ==
    /\ mm \in ExchangeLattices
    /\ exchange = ExchangeEnergy_new(mm, 1)
    /\ zeeman = Absent
    /\ dipolar = Absent
    /\ last = [op |-> "initialize", sites |-> {}, args |-> <<>>, raised |-> FALSE]
    /\ nsteps = 0
    /\ NoUtils

NextExchange ==
    \/ nsteps < MaxSteps /\ \E s \in Occupied(mm) : SwitchSingle(s)
    \/ nsteps < MaxSteps /\ \E S \in Batches(mm) : SwitchMultiple(S)
    \/ Update

SpecExchange == InitExchange /\ [][NextExchange]_vars

\* C21: update_single and update_multiple of ExchangeEnergy leave E equal to
\* the full recompute update(), and -2*E[s] taken before a flip of the
\* occupied site s is E_tot after 'negate mm.m[s]; update_single(s)' minus
\* E_tot before, with and without PBC, for every nearest-neighbour stencil
C21_ExchangeRecompute ==
    [][/\ last'.op \in {"update_single", "update_multiple"}
             => exchange'.E = ExchangeEnergy_update(exchange, mm').E
       /\ last'.op = "update_single"
             => \A s \in last'.sites :
                  FractionDiffIs(ExchangeEnergy_E_tot(exchange, mm),
                                 ExchangeEnergy_E_tot(exchange', mm'),
                                 energy_switch(exchange, s))]_vars

(***************************************************************************)
(* initialize(mm) called again, with another lattice.                      *)
(***************************************************************************)
RebindLattices ==
    { Magnets(Config("OOP_Square", 2, 3, TRUE, FALSE, "afm", 0, "varied", 50, 0)),
      Magnets(Config("IP_Square", 3, 3, FALSE, TRUE, "afm", 1, "varied", 50, 0)),
      Magnets(Config("IP_Square", 2, 4, TRUE, FALSE, "uniform", 0, "unit", 50, 0)),
      OOP_Vacancies(Config("OOP_Square", 2, 2, FALSE, TRUE, "uniform", 0, "unit", 50, 0)) }

\* initialize(l) of every contribution; last.args keeps the shape and the
\* kind of the lattice they were bound to
Rebind(l) ==
    /\ nsteps < MaxSteps
    /\ mm' = l
    /\ zeeman' = ZeemanEnergy_initialize_mm(zeeman, l)
    /\ dipolar' = DipolarEnergy_initialize_mm(dipolar, l)
    /\ exchange' = ExchangeEnergy_initialize_mm(exchange, l)
    /\ last' = [op |-> "initialize", sites |-> {},
                args |-> <<mm.ny, mm.nx, mm.in_plane, mm.USE_PERP_ENERGY>>, raised |-> FALSE]
    /\ nsteps' = nsteps + 1
    /\ UNCHANGED utilvars

InitRebind ==
    /\ mm \in RebindLattices
    /\ zeeman = ZeemanEnergy_new(mm, 1, 0)
    /\ dipolar = DipolarEnergy_new(mm, 1, -3)
    /\ exchange = ExchangeEnergy_new(mm, 1)
    /\ last = [op |-> "initialize", sites |-> {}, args |-> <<>>, raised |-> FALSE]
    /\ nsteps = 0
    /\ NoUtils

NextRebind ==
    \/ nsteps < MaxSteps /\ \E s \in Candidates(mm) : SwitchSingle(s)
    \/ \E f \in FieldChanges : SetField(f[1], f[2])
    \/ \E value \in PrefactorValues, numpy \in BOOLEAN : SetPrefactor(value, numpy)
    \/ nsteps < MaxSteps /\ \E l \in RebindLattices : Rebind(l)

SpecRebind == InitRebind /\ [][NextRebind]_vars

\* C22: after initialize(mm2) on a contribution that was initialized on mm1
\* (and updated since), E, E_perp, kernel_unitcell, kernel_unitcell_indices
\* and the perpendicular kernels are those of a fresh contribution with the
\* same parameters initialized on mm2
C22_InitializeRebuilds ==
    [][(last'.op = "initialize")
          => /\ dipolar' = DipolarEnergy_new(mm', dipolar.prefactor, dipolar.decay_exponent)
             /\ zeeman' = ZeemanEnergy_new(mm', zeeman._magnitude, zeeman._angle)
             /\ exchange' = ExchangeEnergy_new(mm', exchange.J)]_vars

\* C22 case: contributions that held perpendicular energies on a 3x3
\* in-plane lattice, after a change of the prefactor, were initialized on a
\* lattice of another shape without perpendicular energies
C22_Witness ==
    /\ last.op = "initialize" /\ nsteps = 2
    /\ last.args = <<3, 3, TRUE, TRUE>>
    /\ ~mm.USE_PERP_ENERGY /\ mm.ny = 2
    /\ dipolar.prefactor = 2
    /\ dipolar.E # Zeros(mm.ny, mm.nx)

(***************************************************************************)
(* The kernel cache of DipolarEnergy under every operation.                *)
(***************************************************************************)
KernelCache(self) ==
    <<self.kernel_unitcell_indices, self.kernel_unitcell,
      self.kernel_perpself_unitcell, self.kernel_perpother_unitcell>>

NextCache ==
    \/ NextFrame
    \/ nsteps < MaxSteps /\ \E l \in RebindLattices : Rebind(l)

SpecCache == InitRebind /\ [][NextCache]_vars

\* C23: kernel_unitcell, kernel_perpself_unitcell, kernel_perpother_unitcell
\* and kernel_unitcell_indices are left as they are by update, update_single,
\* update_multiple, energy_switch, E_tot and the prefactor setter (and by
\* every other operation that is not initialize)
C23_KernelCacheFrame ==
    [][(last'.op # "initialize") => KernelCache(dipolar') = KernelCache(dipolar)]_vars

\* C23 case: the prefactor was changed to 2 on a contribution whose kernels
\* are not all zero, after another operation
C23_Witness ==
    /\ last.op = "set_prefactor" /\ ~last.raised /\ nsteps = 2
    /\ dipolar.prefactor = 2 /\ dipolar.nonfinite = {}
    /\ \E k \in DOMAIN dipolar.kernel_unitcell :
         \E i \in DOMAIN dipolar.kernel_unitcell[k] : dipolar.kernel_unitcell[k][i] # 0
    /\ \E i \in DOMAIN dipolar.E : dipolar.E[i] # 0

(***************************************************************************)
(* The centre of the cached kernels, for several decay exponents.          *)
(***************************************************************************)
DecayExponents == {-3, -2, 0}

InitCentre ==
    /\ mm \in RebindLattices
    /\ \E d \in DecayExponents : dipolar = DipolarEnergy_new(mm, 1, d)
    /\ zeeman = Absent /\ exchange = Absent
    /\ last = [op |-> "initialize", sites |-> {}, args |-> <<>>, raised |-> FALSE]
    /\ nsteps = 0
    /\ NoUtils

NextCentre ==
    \/ nsteps < MaxSteps /\ \E s \in Candidates(mm) : SwitchSingle(s)
    \/ nsteps < MaxSteps /\ \E S \in Batches(mm) : SwitchMultiple(S)
    \/ Update

SpecCentre == InitCentre /\ [][NextCentre]_vars

\* the element (ny-1, nx-1) of every kernel of the cache is zero
KernelCentresZero(self, l) ==
    \A n \in DOMAIN self.kernel_unitcell :
       /\ self.kernel_unitcell[n][<<l.ny-1, l.nx-1>>] = 0
       /\ self.kernel_perpself_unitcell[n][<<l.ny-1, l.nx-1>>] = 0
       /\ self.kernel_perpother_unitcell[n][<<l.ny-1, l.nx-1>>] = 0

\* one step keeps the kernel centres at zero, and update_single changes the
\* E entry of the flipped site by negating it and no more
CentreStep ==
    /\ KernelCentresZero(dipolar', mm')
    /\ last'.op = "update_single"
          => \A s \in last'.sites :
               /\ dipolar'.E[s] = -dipolar.E[s]
               /\ dipolar'.E_perp[s] = -dipolar.E_perp[s]

\* C24: in every cached kernel (normal, perpself, perpother) the centre
\* element (ny-1, nx-1) is zero, with and without PBC, and update_single
\* changes the E entry of the flipped site by negating it and no more
C24_KernelCentreZero == [][CentreStep]_vars

\* the same for the contributions with a negative decay exponent
C24_NegativeExponent == [][dipolar.decay_exponent < 0 => CentreStep]_vars

(***************************************************************************)
(* kernel_unitcell_indices and the number of cached kernels.               *)
(***************************************************************************)
\* the occupied positions of the sub-cell that come before p in row-major
\* order
OccupiedBefore(l, p) ==
    {q \in Idx(l.unitcell.y, l.unitcell.x) :
        /\ l.occupation[q] # 0
        /\ q[1] * l.unitcell.x + q[2] < p[1] * l.unitcell.x + p[2]}

\* C25: kernel_unitcell_indices is -1 exactly at the positions of the
\* sub-cell without a site, the occupied positions hold 0..N-1 in row-major
\* order, and each of the three kernel arrays holds N kernels
C25_KernelIndices ==
    Present(dipolar) =>
       LET N == Cardinality({q \in Idx(mm.unitcell.y, mm.unitcell.x) : mm.occupation[q] # 0})
       IN  /\ DOMAIN dipolar.kernel_unitcell_indices = Idx(mm.unitcell.y, mm.unitcell.x)
           /\ \A p \in Idx(mm.unitcell.y, mm.unitcell.x) :
                 dipolar.kernel_unitcell_indices[p]
                    = IF mm.occupation[p] = 0 THEN -1
                      ELSE Cardinality(OccupiedBefore(mm, p))
           /\ Len(dipolar.kernel_unitcell) = N
           /\ Len(dipolar.kernel_perpself_unitcell) = N
           /\ Len(dipolar.kernel_perpother_unitcell) = N

\* C25 case: an in-plane lattice whose 2x2 sub-cell has two empty and two
\* occupied positions, with two kernels cached, after a switch
C25_Witness ==
    /\ Present(dipolar) /\ mm.in_plane /\ last.op = "update_single"
    /\ dipolar.kernel_unitcell_indices = [p \in Idx(2, 2) |->
          CASE p = <<0, 1>> -> 0 [] p = <<1, 0>> -> 1 [] OTHER -> -1]
    /\ Len(dipolar.kernel_unitcell) = 2

(***************************************************************************)
(* E_perp of the dipolar contribution on in-plane lattices with            *)
(* USE_PERP_ENERGY, every batch below the cutoff (direct sum).             *)
(***************************************************************************)
PerpConfigs ==
    { Config("IP_Square", 2, 4, TRUE, TRUE, "uniform", v, "varied", 50, 0) : v \in {0, 1} }
    \cup { Config("IP_Square", 3, 3, FALSE, TRUE, "afm", 1, mo, 50, 0) :
             mo \in {"unit", "varied"} }

InitPerp ==
    /\ \E c \in PerpConfigs :
         /\ mm = Magnets(c)
         /\ dipolar = DipolarEnergy_new(mm, 1, -3)
    /\ zeeman = Absent
    /\ exchange = Absent
    /\ last = [op |-> "initialize", sites |-> {}, args |-> <<>>, raised |-> FALSE]
    /\ nsteps = 0
    /\ NoUtils

NextPerp ==
    \/ nsteps < MaxSteps /\ \E s \in Candidates(mm) : SwitchSingle(s)
    \/ nsteps < MaxSteps /\ \E S \in Batches(mm) : SwitchMultiple(S)
    \/ Update

SpecPerp == InitPerp /\ [][NextPerp]_vars

\* C26: on an in-plane lattice with USE_PERP_ENERGY, after any sequence of
\* single switches with update_single and batch switches with update_multiple
\* (direct sum), E_perp is the E_perp update() computes from the spin
\* configuration
C26_PerpIncrementalExact ==
    (mm.in_plane /\ mm.USE_PERP_ENERGY)
       => dipolar.E_perp = DipolarEnergy_update(dipolar, mm).E_perp

\* C26 case: a batch of two sites was switched after another switch, and
\* E_perp is not zero at a switched site and at another site
C26_Witness ==
    /\ mm.in_plane /\ mm.USE_PERP_ENERGY /\ nsteps = 2
    /\ last.op = "update_multiple" /\ Cardinality(last.sites) = 2
    /\ \E s \in last.sites : dipolar.E_perp[s] # 0
    /\ \E i \in Occupied(mm) \ last.sites : dipolar.E_perp[i] # 0

(***************************************************************************)
(* E_perp on lattices without USE_PERP_ENERGY.                             *)
(***************************************************************************)
\* E_perp of the three contributions holds zeros (the dipolar one unless the
\* prefactor setter left NaN in it)
PerpAllZero ==
    /\ zeeman.E_perp = Zeros(mm.ny, mm.nx)
    /\ exchange.E_perp = Zeros(mm.ny, mm.nx)
    /\ "E_perp" \notin dipolar.nonfinite => dipolar.E_perp = Zeros(mm.ny, mm.nx)

kernel_between(self, l, i, j) ==
    self.kernel_unitcell[self.kernel_unitcell_indices[cell_of(l, i)] + 1]
        [<<l.ny - 1 + j[1] - i[1], l.nx - 1 + j[2] - i[2]>>]

\* C28: for occupied sites i and j, the kernel of the sub-cell position of i
\* at the offset j-i equals the kernel of the sub-cell position of j at the
\* offset i-j
C28_KernelPairSymmetry ==
    Present(dipolar) =>
       \A i \in Occupied(mm), j \in Occupied(mm) :
          kernel_between(dipolar, mm, i, j) = kernel_between(dipolar, mm, j, i)

\* C28 case: on a periodic in-plane lattice two sites at different positions
\* of the sub-cell, diagonal to each other, have a non-zero kernel element
C28_Witness ==
    /\ Present(dipolar) /\ mm.in_plane /\ mm.PBC /\ last.op = "update_single"
    /\ \E i \in Occupied(mm), j \in Occupied(mm) :
          /\ cell_of(mm, i) # cell_of(mm, j)
          /\ i[1] # j[1] /\ i[2] # j[2]
          /\ kernel_between(dipolar, mm, i, j) # 0

(***************************************************************************)
(* The incremental update in floating point.  The grids of the code are    *)
(* float arrays: every sum and product is rounded to the nearest number    *)
(* with a significand of Precision bits (ties to even; 53 bits in the      *)
(* code).  A negation and a product with 2 are exact.                      *)
(***************************************************************************)
Precision == 10

abs(x) == IF x < 0 THEN -x ELSE x

\* the distance between neighbouring floats at the magnitude mag
RECURSIVE ulp_from(_, _)
ulp_from(mag, q) == IF mag < q * 2^Precision THEN q ELSE ulp_from(mag, 2*q)

ulp(mag) == ulp_from(mag, 1)

\* x rounded to the nearest float
fl(x) ==
    LET mag == abs(x)
        q == ulp(mag)
        r == mag % q
        base == mag - r
        up == IF 2*r > q \/ (2*r = q /\ (base \div q) % 2 = 1) THEN base + q ELSE base
    IN  IF x < 0 THEN -up ELSE up

fl_grid(E) == [i \in DOMAIN E |-> fl(E[i])]

\* interaction = prefactor*mmoment[y, x]*xp.multiply(mmoment, usefulkernel)
interaction_fl(prefactor, k, l, s) ==
    [i \in Idx(l.ny, l.nx) |->
        fl(fl(prefactor * mmoment_of(l)[s]) * fl(mmoment_of(l)[i] * fl(usefulkernel(k, l, s)[i])))]

\* E += 2*interaction without E[y, x] *= -1
dipolar_single_grid_fl_unnegated(E, prefactor, k, l, s) ==
    [i \in Idx(l.ny, l.nx) |-> fl(E[i] + 2 * interaction_fl(prefactor, k, l, s)[i])]

\* E += 2*interaction; E[y, x] *= -1
dipolar_single_grid_fl(E, prefactor, k, l, s) ==
    negate_at([i \in Idx(l.ny, l.nx) |-> fl(E[i] + 2 * interaction_fl(prefactor, k, l, s)[i])],
              {s})

DipolarEnergy_update_single_fl(self, l, s) ==
    LET n == self.kernel_unitcell_indices[cell_of(l, s)]
    IN  IF n < 0 THEN self
        ELSE [self EXCEPT
                !.E = dipolar_single_grid_fl(self.E, self.prefactor,
                                             self.kernel_unitcell[n+1], l, s),
                !.E_perp = IF l.USE_PERP_ENERGY
                           THEN dipolar_single_grid_fl(self.E_perp, self.prefactor,
                                                       self.kernel_perpother_unitcell[n+1], l, s)
                           ELSE self.E_perp]

\* update(): the grids it produces are floats
DipolarEnergy_update_fl(self, l) ==
    [DipolarEnergy_update(self, l) EXCEPT
       !.E = fl_grid(DipolarEnergy_update(self, l).E),
       !.E_perp = fl_grid(DipolarEnergy_update(self, l).E_perp)]

RoundedConfigs ==
    { Config("OOP_Square", 2, 3, pbc, FALSE, "uniform", 0, "varied", 50, 0) : pbc \in BOOLEAN }
    \cup { Config("IP_Square", 3, 3, FALSE, TRUE, "uniform", 0, "varied", 50, 0),
           Config("IP_Square", 2, 4, TRUE, TRUE, "uniform", 0, "unit", 50, 0) }

InitRounded ==
    /\ \E c \in RoundedConfigs :
         /\ mm = Magnets(c)
         /\ dipolar = DipolarEnergy_update_fl(DipolarEnergy_new(mm, 1, -3), mm)
         /\ zeeman = ZeemanEnergy_new(mm, 1, 0)
    /\ exchange = Absent
    /\ last = [op |-> "initialize", sites |-> {}, args |-> <<>>, raised |-> FALSE]
    /\ nsteps = 0
    /\ NoUtils

\* the scheduler negates mm.m at one site and calls update_single
SwitchSingleRounded(s) ==
    /\ nsteps < MaxSteps
    /\ mm' = switched(mm, {s})
    /\ zeeman' = ZeemanEnergy_update_single(zeeman, mm', s)
    /\ dipolar' = DipolarEnergy_update_single_fl(dipolar, mm', s)
    /\ last' = [op |-> "update_single", sites |-> {s}, args |-> <<>>, raised |-> FALSE]
    /\ nsteps' = nsteps + 1
    /\ UNCHANGED exchange
    /\ UNCHANGED utilvars

UpdateRounded ==
    /\ nsteps < MaxSteps
    /\ zeeman' = ZeemanEnergy_update(zeeman, mm)
    /\ dipolar' = DipolarEnergy_update_fl(dipolar, mm)
    /\ last' = [op |-> "update", sites |-> {}, args |-> <<>>, raised |-> FALSE]
    /\ nsteps' = nsteps + 1
    /\ UNCHANGED <<mm, exchange>>
    /\ UNCHANGED utilvars

NextRounded ==
    \/ \E s \in Occupied(mm) : SwitchSingleRounded(s)
    \/ UpdateRounded

SpecRounded == InitRounded /\ [][NextRounded]_vars

\* two grids whose entries differ by at most n units in the last place at
\* the magnitude of the entries of A, B and of the grids Mid1 and Mid2
\* passed through
WithinRounding(A, B, Mid1, Mid2, n) ==
    \A i \in DOMAIN A :
       abs(A[i] - B[i]) <= n * ulp(abs(A[i]) + abs(B[i]) + abs(Mid1[i]) + abs(Mid2[i]))

\* the switch of s followed by the switch of t, from the grids of self on
\* the lattice l, in floats and in exact arithmetic
TwoSwitches_fl(self, l, s, t) ==
    DipolarEnergy_update_single_fl(
        DipolarEnergy_update_single_fl(self, switched(l, {s}), s), switched(l, {s, t} \ ({s} \cap {t})), t)

TwoSwitches(self, l, s, t) ==
    DipolarEnergy_update_single(
        DipolarEnergy_update_single(self, switched(l, {s}), s), switched(l, {s, t} \ ({s} \cap {t})), t)

\* C29 as claimed: after the switch of s, a second switch of s gives back E
\* and E_perp of the dipolar and of the Zeeman contribution as they were
\* before the first, and the switch of another site b after s gives the E of
\* the switch of s after b
C29_Original ==
    [][last'.op = "update_single"
          => \A s \in last'.sites :
               /\ ZeemanEnergy_update_single(zeeman', mm, s).E = zeeman.E
               /\ ZeemanEnergy_update_single(zeeman', mm, s).E_perp = zeeman.E_perp
               /\ DipolarEnergy_update_single_fl(dipolar', mm, s).E = dipolar.E
               /\ DipolarEnergy_update_single_fl(dipolar', mm, s).E_perp = dipolar.E_perp
               /\ \A b \in Occupied(mm) \ {s} :
                     DipolarEnergy_update_single_fl(dipolar', switched(mm', {b}), b).E
                        = TwoSwitches_fl(dipolar, mm, b, s).E]_vars

\* C29: the second switch of s gives back E and E_perp of the Zeeman
\* contribution exactly; of the dipolar contribution exactly when no sum is
\* rounded, and in floats to within one unit in the last place; the E of two
\* switches in either order is the same when no sum is rounded, and in floats
\* to within two units in the last place
C29_InvolutionUpToRounding ==
    [][last'.op = "update_single"
          => \A s \in last'.sites :
               /\ ZeemanEnergy_update_single(zeeman', mm, s).E = zeeman.E
               /\ ZeemanEnergy_update_single(zeeman', mm, s).E_perp = zeeman.E_perp
               /\ TwoSwitches(dipolar, mm, s, s).E = dipolar.E
               /\ TwoSwitches(dipolar, mm, s, s).E_perp = dipolar.E_perp
               /\ WithinRounding(DipolarEnergy_update_single_fl(dipolar', mm, s).E,
                                 dipolar.E, dipolar'.E, dipolar'.E, 1)
               /\ WithinRounding(DipolarEnergy_update_single_fl(dipolar', mm, s).E_perp,
                                 dipolar.E_perp, dipolar'.E_perp, dipolar'.E_perp, 1)
               /\ \A b \in Occupied(mm) \ {s} :
                     /\ TwoSwitches(dipolar, mm, s, b).E = TwoSwitches(dipolar, mm, b, s).E
                     /\ WithinRounding(TwoSwitches_fl(dipolar, mm, s, b).E,
                                       TwoSwitches_fl(dipolar, mm, b, s).E, dipolar'.E,
                                       DipolarEnergy_update_single_fl(
                                           dipolar, switched(mm, {b}), b).E, 2)]_vars

\* C29 case: one site was switched twice (every spin is +1 again) and E of
\* the dipolar contribution is not the grid it started from, while E of the
\* Zeeman contribution is
C29_Witness ==
    /\ last.op = "update_single" /\ nsteps = 2
    /\ \A i \in Occupied(mm) : mm.m[i] = 1
    /\ dipolar.E # DipolarEnergy_update_fl(dipolar, mm).E
    /\ zeeman.E = ZeemanEnergy_update(zeeman, mm).E

(***************************************************************************)
(* fill(): addRandomPoint() on a fresh sampler, then next() until it       *)
(* returns None.  The loop runs in one thread and nothing blocks it, so    *)
(* a call that can be made is made: weak fairness of the two steps.        *)
(***************************************************************************)
FillBoxes == { <<5, 5, 3>>, <<4, 6, 3>>, <<3, 4, 2>> }

InitFill ==
    /\ \E b \in FillBoxes :
         sampler = SequentialPoissonDiskSampling_new(b[1], b[2], b[3], Tries)
    /\ mirror = <<>>
    /\ NoEnergies

\* one pass of 'while self.next(): pass'
FillNext ==
    /\ Len(sampler.samplePoints) >= 1
    /\ sampler' \in next_results(sampler)
    /\ UNCHANGED <<mirror, energyvars>>

NextFill ==
    \/ AddRandomPoint
    \/ FillNext

SpecFill ==
    InitFill /\ [][NextFill]_vars /\ WF_vars(AddRandomPoint) /\ WF_vars(FillNext)

\* next() returned None: nothing is left to process, and there are samples
FillDone == Len(sampler.processList) = 0 /\ Len(sampler.samplePoints) >= 1

\* C30: every call of next() appends one sample point, or leaves processList
\* empty and samplePoints as it was (and returns None); and fill() comes to
\* the state where next() returns None, processList is empty and
\* samplePoints is not
C30_FillTerminates ==
    /\ [][Len(sampler.samplePoints) >= 1
             => \/ /\ Len(sampler'.samplePoints) = Len(sampler.samplePoints) + 1
                   /\ Len(sampler'.processList) <= Len(sampler.processList) + 1
                \/ /\ sampler'.samplePoints = sampler.samplePoints
                   /\ sampler'.processList = <<>>]_vars
    /\ <>[]FillDone

\* C30 case: fill() has ended with two or more samples, the later ones
\* added by next()
C30_Witness ==
    /\ sampler # <<>>
    /\ Len(sampler.processList) = 0 /\ Len(sampler.samplePoints) >= 2

====
